---- MODULE Spec2Model ----
(***************************************************************************)
(* ImGuiUtils: the scale-aware Window (Window.h / Window.cpp), the layout  *)
(* functions of PositionTools and the grid routines of DrawTools.          *)
(*                                                                         *)
(* float values are modelled as exact rationals <<n, d>> in lowest terms   *)
(* with d > 0, so that equal values are equal tuples.                      *)
(***************************************************************************)
EXTENDS Integers, Sequences, FiniteSets, TLC

VARIABLES
    debug,      \* whether the build defines DEBUG (Window.h:201)
    win,        \* the fields of the Window object
    viewport,   \* ImGui::GetMainViewport()->WorkSize
    clock,      \* ImGui::GetTime()
    pc,         \* position inside Window::render
    imgui,      \* the state of the ImGui stacks the Window drives
    log,        \* the calls issued by the current (or last) render, in order
    assigned,   \* the scale fields assigned by the last updateScale call
    args,       \* the arguments of a call of a layout / grid function
    ret,        \* what that call returned
    loader      \* Texture::Load: its position, its locals and the files it holds open

vars == <<debug, win, viewport, clock, pc, imgui, log, assigned, args, ret, loader>>

windowVars == <<debug, win, viewport, clock, pc, imgui, log, assigned>>
callVars == <<args, ret>>
loaderVars == <<loader>>

(***************************************************************************)
(* Bounds of the model.                                                    *)
(***************************************************************************)
MaxClock == 1          \* the host clock runs 0..MaxClock
MaxOpenRegions == 2    \* renders are started while fewer regions are left open
MaxColumns == 3        \* grids have 1..MaxColumns columns
MaxRows == 3           \* grids have 1..MaxRows rows
MaxImages == 4         \* PopulateGrid is given 0..MaxImages images
MaxLine == 2           \* objects are aligned on the lines 0..MaxLine of a document
MaxDates == 3          \* PopulateSparseRoundedGridWithDates is given 0..MaxDates dates
MaxLoads == 4          \* Texture::Load is called at most MaxLoads times

(***************************************************************************)
(* float arithmetic, exact.                                                *)
(***************************************************************************)
Abs(n) == IF n < 0 THEN -n ELSE n

RECURSIVE GCD(_, _)
GCD(a, b) == IF b = 0 THEN a ELSE GCD(b, a % b)

\* the float with value n / d (d # 0)
Q(n, d) ==
    LET g == GCD(Abs(n), Abs(d))
        s == IF d < 0 THEN -1 ELSE 1
    IN <<(s * n) \div g, (s * d) \div g>>

\* conversion int -> float
F(n) == <<n, 1>>

QAdd(a, b) == Q(a[1] * b[2] + b[1] * a[2], a[2] * b[2])
QSub(a, b) == Q(a[1] * b[2] - b[1] * a[2], a[2] * b[2])
QMul(a, b) == Q(a[1] * b[1], a[2] * b[2])
QDiv(a, b) == Q(a[1] * b[2], a[2] * b[1])
QLess(a, b) == a[1] * b[2] < b[1] * a[2]
QLeq(a, b) == a[1] * b[2] <= b[1] * a[2]

(***************************************************************************)
(* The values of IEEE-754 that are not rationals.  float division by zero  *)
(* does not trap: it yields an infinity, or NaN for 0 / 0.                 *)
(***************************************************************************)
NegZero == <<0, -1>>
PosInf == <<1, 0>>
NegInf == <<-1, 0>>
NaN == <<0, 0>>

IsNaN(a) == a = NaN
IsInf(a) == a[2] = 0 /\ a[1] # 0
IsZero(a) == a[1] = 0 /\ a[2] # 0
SignBit(a) == a[1] < 0 \/ a = NegZero
SignedZero(negative) == IF negative THEN NegZero ELSE F(0)
SignedInf(negative) == IF negative THEN NegInf ELSE PosInf

\* float operator/
FloatDiv(a, b) ==
    IF IsNaN(a) \/ IsNaN(b) THEN NaN
    ELSE IF IsInf(a) THEN (IF IsInf(b) THEN NaN ELSE SignedInf(SignBit(a) # SignBit(b)))
    ELSE IF IsInf(b) THEN SignedZero(SignBit(a) # SignBit(b))
    ELSE IF IsZero(b) THEN (IF IsZero(a) THEN NaN ELSE SignedInf(SignBit(a) # SignBit(b)))
    ELSE IF IsZero(a) THEN SignedZero(SignBit(a) # SignBit(b))
    ELSE QDiv(a, b)

\* float operator*
FloatMul(a, b) ==
    IF IsNaN(a) \/ IsNaN(b) THEN NaN
    ELSE IF IsInf(a) \/ IsInf(b)
    THEN (IF IsZero(a) \/ IsZero(b) THEN NaN ELSE SignedInf(SignBit(a) # SignBit(b)))
    ELSE IF IsZero(a) \/ IsZero(b) THEN SignedZero(SignBit(a) # SignBit(b))
    ELSE QMul(a, b)

\* float operator>: false when either side is NaN, -0 equals +0
FloatGreater(a, b) ==
    IF IsNaN(a) \/ IsNaN(b) THEN FALSE
    ELSE IF IsInf(a) \/ IsInf(b) THEN a # b /\ (a = PosInf \/ b = NegInf)
    ELSE QLess(IF IsZero(b) THEN F(0) ELSE b, IF IsZero(a) THEN F(0) ELSE a)

ImVec2(x, y) == [x |-> x, y |-> y]

\* ImVec2 operator+
VecAdd(lhs, rhs) == ImVec2(QAdd(lhs.x, rhs.x), QAdd(lhs.y, rhs.y))

\* ImVec2 operator-
VecSub(lhs, rhs) == ImVec2(QSub(lhs.x, rhs.x), QSub(lhs.y, rhs.y))

\* ImVec2 operator* (by a float)
VecMul(lhs, rhs) == ImVec2(FloatMul(lhs.x, rhs), FloatMul(lhs.y, rhs))

\* a division that leaves the y axis alone
VecDivOneAxis(lhs, rhs) == ImVec2(FloatDiv(lhs.x, rhs), lhs.y)

\* ImVec2 operator/ (by a float)
VecDiv(lhs, rhs) == ImVec2(FloatDiv(lhs.x, rhs), FloatDiv(lhs.y, rhs))

(***************************************************************************)
(* int arithmetic of C++: / truncates toward zero, % takes the sign of the *)
(* dividend.  The divisor is not 0.                                        *)
(***************************************************************************)
CDiv(a, b) ==
    LET q == Abs(a) \div Abs(b)
    IN IF (a < 0) = (b < 0) THEN q ELSE -q

CMod(a, b) == a - b * CDiv(a, b)

(***************************************************************************)
(* Program constants.                                                      *)
(***************************************************************************)
DEFAULT_VIEWPORT_WIDTH == F(3840)
\* the height of a 1080p viewport
HD_VIEWPORT_HEIGHT == F(1080)
DEFAULT_VIEWPORT_HEIGHT == F(2160)

\* Color::RGBtoImVec4
RGBtoImVec4(r, g, b, a) ==
    <<QDiv(r, F(255)), QDiv(g, F(255)), QDiv(b, F(255)), a>>

DEFAULT_BG == RGBtoImVec4(F(40), F(40), F(40), F(1))

\* ImGui's IM_F32_TO_INT8_SAT: a float is clamped to [0, 1] and converted to
\* a byte, (int)(f * 255.0f + 0.5f)
F32_TO_INT8_SAT(f) ==
    LET saturated == IF QLess(f, F(0)) THEN F(0) ELSE IF QLess(F(1), f) THEN F(1) ELSE f
        v == QAdd(QMul(saturated, F(255)), Q(1, 2))
    IN v[1] \div v[2]

\* ImGui::ColorConvertFloat4ToU32.  An ImU32 colour is held as its four
\* bytes <<R, G, B, A>>, from the lowest (shift 0) to the highest (shift 24).
ColorConvertFloat4ToU32(in) ==
    <<F32_TO_INT8_SAT(in[1]), F32_TO_INT8_SAT(in[2]), F32_TO_INT8_SAT(in[3]), F32_TO_INT8_SAT(in[4])>>

\* Color::RGBtoImU32
RGBtoImU32(r, g, b, a) ==
    ColorConvertFloat4ToU32(<<QDiv(r, F(255)), QDiv(g, F(255)), QDiv(b, F(255)), QDiv(a, F(255))>>)

\* the alpha byte of an ImU32, its highest
AlphaByte(color) == color[4]

(***************************************************************************)
(* Window                                                                  *)
(***************************************************************************)
\* Window::Window: the fields after construction (title and flags never change)
Window(dWidth, dHeight, posX, posY) ==
    [ designedWidth |-> dWidth,
      designedHeight |-> dHeight,
      designedPositionX |-> posX,
      designedPositionY |-> posY,
      width |-> dWidth,
      height |-> dHeight,
      dimensions |-> ImVec2(dWidth, dHeight),
      position |-> ImVec2(posX, posY),
      scaleX |-> F(1),
      scaleY |-> F(1),
      scaleAvg |-> F(1),
      previousViewportWidth |-> DEFAULT_VIEWPORT_WIDTH,
      previousViewportHeight |-> DEFAULT_VIEWPORT_HEIGHT,
      currentTime |-> F(0),
      hasBackground |-> TRUE,
      backgroundColor |-> DEFAULT_BG,
      flags |-> {} ]

\* Accessors
getWidth(w) == w.width
getHeight(w) == w.height
getScaleX(w) == w.scaleX
getScaleY(w) == w.scaleY
getScaleAvg(w) == w.scaleAvg

\* Mutators
setBackgroundColor(w, color) == [w EXCEPT !.backgroundColor = color]
setBackgroundVisibility(w, visible) == [w EXCEPT !.hasBackground = visible]

\* updateScale: the tests guarding the two recomputations
widthChangedAlways(w, viewportWidth) == TRUE
widthChanged(w, viewportWidth) == viewportWidth # w.previousViewportWidth

heightChangedAlways(w, viewportHeight) == TRUE
heightChanged(w, viewportHeight) == viewportHeight # w.previousViewportHeight

\* updateScale: the ratio of the observed size to the reference size
scaleOfInverted(observed, reference) == QDiv(reference, observed)
scaleOf(observed, reference) == QDiv(observed, reference)

\* updateScale: designed geometry scaled per axis
scaledOneAxis(designedX, designedY, sx, sy) ==
    ImVec2(QMul(designedX, sx), QMul(designedY, sx))
scaled(designedX, designedY, sx, sy) ==
    ImVec2(QMul(designedX, sx), QMul(designedY, sy))

\* the fields updateScale assigns when it observes the viewport size vp
updateScaleAssigned(w, vp) ==
    LET altered == widthChanged(w, vp.x) \/ heightChanged(w, vp.y)
    IN (IF widthChanged(w, vp.x) THEN {"scaleX", "previousViewportWidth"} ELSE {})
       \cup (IF heightChanged(w, vp.y) THEN {"scaleY", "previousViewportHeight"} ELSE {})
       \cup (IF altered THEN {"scaleAvg", "dimensions", "position"} ELSE {})

\* a slip that scales the designed size in place
updateScaleInPlace(w, vp) ==
    LET sx == scaleOf(vp.x, DEFAULT_VIEWPORT_WIDTH)
        sy == scaleOf(vp.y, DEFAULT_VIEWPORT_HEIGHT)
    IN [w EXCEPT !.scaleX = sx, !.scaleY = sy,
                 !.previousViewportWidth = vp.x, !.previousViewportHeight = vp.y,
                 !.scaleAvg = QMul(QAdd(sx, sy), Q(1, 2)),
                 !.designedWidth = QMul(@, sx), !.designedHeight = QMul(@, sy),
                 !.dimensions = ImVec2(QMul(w.designedWidth, sx), QMul(w.designedHeight, sy)),
                 !.position = scaled(w.designedPositionX, w.designedPositionY, sx, sy)]

\* Window::updateScale, observing the viewport size vp
updateScale(w, vp) ==
    LET w1 == IF widthChanged(w, vp.x)
              THEN [w EXCEPT !.scaleX = scaleOf(vp.x, DEFAULT_VIEWPORT_WIDTH),
                             !.previousViewportWidth = vp.x]
              ELSE w
        w2 == IF heightChanged(w1, vp.y)
              THEN [w1 EXCEPT !.scaleY = scaleOf(vp.y, DEFAULT_VIEWPORT_HEIGHT),
                              !.previousViewportHeight = vp.y]
              ELSE w1
        altered == widthChanged(w, vp.x) \/ heightChanged(w1, vp.y)
    IN IF altered
       THEN [w2 EXCEPT !.scaleAvg = QMul(QAdd(w2.scaleX, w2.scaleY), Q(1, 2)),
                       !.dimensions = scaled(w2.designedWidth, w2.designedHeight,
                                             w2.scaleX, w2.scaleY),
                       !.position = scaled(w2.designedPositionX, w2.designedPositionY,
                                           w2.scaleX, w2.scaleY)]
       ELSE w2

\* a call issued by render, with its argument
Call(fn, arg) == [fn |-> fn, arg |-> arg]

\* a slip that leaves the pushed background colour for buildEnd to pop
openRegionLeavesColor(w) ==
    (IF w.hasBackground
     THEN <<Call("PushStyleColor", w.backgroundColor)>>
     ELSE <<>>)
    \o <<Call("SetNextWindowPos", w.position),
         Call("SetNextWindowSize", w.dimensions),
         Call("Begin", IF ~w.hasBackground
                       THEN w.flags \cup {"ImGuiWindowFlags_NoBackground"}
                       ELSE w.flags)>>

\* buildStart after the optional scale update: the ImGui calls it issues
openRegion(w) ==
    LET currentFlags == IF ~w.hasBackground
                        THEN w.flags \cup {"ImGuiWindowFlags_NoBackground"}
                        ELSE w.flags
    IN (IF w.hasBackground
        THEN <<Call("PushStyleColor", w.backgroundColor)>>
        ELSE <<>>)
       \o <<Call("SetNextWindowPos", w.position),
            Call("SetNextWindowSize", w.dimensions),
            Call("Begin", currentFlags)>>
       \o (IF w.hasBackground THEN <<Call("PopStyleColor", <<>>)>> ELSE <<>>)

\* a slip that opens the region before the scale update
buildStartUpdatesLate(w, vp, dbg) ==
    [ win |-> IF dbg THEN updateScale(w, vp) ELSE w,
      assigned |-> IF dbg THEN updateScaleAssigned(w, vp) ELSE {},
      calls |-> openRegion(w)
                \o (IF dbg THEN <<Call("updateScale", <<>>)>> ELSE <<>>) ]

\* a slip that scales in every build
buildStartAlwaysScales(w, vp, dbg) ==
    [ win |-> updateScale(w, vp),
      assigned |-> updateScaleAssigned(w, vp),
      calls |-> <<Call("updateScale", <<>>)>> \o openRegion(updateScale(w, vp)) ]

\* Window::buildStart in a build with DEBUG defined (dbg) or not
buildStart(w, vp, dbg) ==
    LET w1 == IF dbg THEN updateScale(w, vp) ELSE w
    IN [ win |-> w1,
         assigned |-> IF dbg THEN updateScaleAssigned(w, vp) ELSE {},
         calls |-> (IF dbg THEN <<Call("updateScale", <<>>)>> ELSE <<>>)
                   \o openRegion(w1) ]

\* Window::buildEnd: the ImGui calls it issues
buildEnd == <<Call("End", <<>>)>>

\* the number of calls of fn in a sequence of calls
Count(calls, fn) == Cardinality({i \in DOMAIN calls : calls[i].fn = fn})

\* the ImGui stacks after a sequence of calls
Issue(im, calls) ==
    [ regions |-> im.regions + Count(calls, "Begin") - Count(calls, "End"),
      styleColors |-> im.styleColors + Count(calls, "PushStyleColor")
                                     - Count(calls, "PopStyleColor") ]

(***************************************************************************)
(* Grids: Position::GridTranslocatedOrigin and Draw::PopulateGrid          *)
(***************************************************************************)
\* the conventional row-major rule: the row is cellNumber / columns
GridTranslocatedOriginRowMajor(origin, cellWidth, cellHeight, gridlineWidth, columns, rows, cellNumber) ==
    LET origin1 == VecAdd(origin, ImVec2(gridlineWidth, gridlineWidth))
        horizontalDisplacement == QAdd(cellWidth, gridlineWidth)
        verticalDisplacement == QAdd(cellHeight, gridlineWidth)
        row == CDiv(cellNumber, columns)
        col == CMod(cellNumber, columns)
    IN ImVec2(QAdd(origin1.x, QMul(F(col), horizontalDisplacement)),
              QAdd(origin1.y, QMul(F(row), verticalDisplacement)))

\* Position::GridTranslocatedOrigin (rows # 0 and columns # 0)
GridTranslocatedOrigin(origin, cellWidth, cellHeight, gridlineWidth, columns, rows, cellNumber) ==
    LET origin1 == VecAdd(origin, ImVec2(gridlineWidth, gridlineWidth))
        horizontalDisplacement == QAdd(cellWidth, gridlineWidth)
        verticalDisplacement == QAdd(cellHeight, gridlineWidth)
        row == CDiv(cellNumber, rows)
        col == CMod(cellNumber, columns)
        x == QAdd(origin1.x, QMul(F(col), horizontalDisplacement))
        y == QAdd(origin1.y, QMul(F(row), verticalDisplacement))
    IN ImVec2(x, y)

\* the two nested loops of PopulateGrid; drawn collects the Image calls, each
\* with the index it reads from images and the anchor it draws at
RECURSIVE PopulateGridLoop(_, _, _, _, _, _, _, _, _, _)
PopulateGridLoop(imageCount, origin1, columns, rows, horizontalCellDisplacement, verticalCellDisplacement, currentRow, currentColumn, cellIndex, drawn) ==
    IF ~(currentRow < rows) THEN drawn
    ELSE IF ~(currentColumn < columns)
    THEN PopulateGridLoop(imageCount, origin1, columns, rows,
                          horizontalCellDisplacement, verticalCellDisplacement,
                          currentRow + 1, 0, cellIndex, drawn)
    ELSE IF cellIndex >= imageCount THEN drawn
    ELSE LET anchor == VecAdd(origin1,
                         ImVec2(QMul(F(currentColumn), horizontalCellDisplacement),
                                QMul(F(currentRow), verticalCellDisplacement)))
             image == [index |-> currentRow * columns + currentColumn,
                       anchor |-> anchor]
         IN PopulateGridLoop(imageCount, origin1, columns, rows,
                             horizontalCellDisplacement, verticalCellDisplacement,
                             currentRow, currentColumn + 1, cellIndex + 1,
                             Append(drawn, image))

\* a population that fills every cell of the grid, whatever the images
PopulateGridFillsEveryCell(imageCount, origin, columns, rows, cellWidth, cellHeight, gridlineWidth) ==
    [i \in 1..(columns * rows) |->
        [index |-> i - 1,
         anchor |-> VecAdd(VecAdd(origin, ImVec2(gridlineWidth, gridlineWidth)),
                           ImVec2(QMul(F((i - 1) % columns), QAdd(cellWidth, gridlineWidth)),
                                  QMul(F((i - 1) \div columns), QAdd(cellHeight, gridlineWidth))))]]

\* Draw::PopulateGrid with imageCount images: the Image calls it makes, in order
PopulateGrid(imageCount, origin, columns, rows, cellWidth, cellHeight, gridlineWidth) ==
    PopulateGridLoop(imageCount,
                     VecAdd(origin, ImVec2(gridlineWidth, gridlineWidth)),
                     columns, rows,
                     QAdd(cellWidth, gridlineWidth), QAdd(cellHeight, gridlineWidth),
                     0, 0, 0, <<>>)

\* Draw::PopulateSparseRoundedGrid with imageCount images: the RoundedImage
\* calls it makes, in order; its two loops are those of PopulateGrid
PopulateSparseRoundedGrid(imageCount, origin, columns, rows, cellWidth, cellHeight, spacing) ==
    PopulateGridLoop(imageCount,
                     VecAdd(origin, ImVec2(spacing, spacing)),
                     columns, rows,
                     QAdd(cellWidth, spacing), QAdd(cellHeight, spacing),
                     0, 0, 0, <<>>)

\* the two nested loops of PopulateSparseRoundedGridWithDates.  cells collects,
\* for each cell visited, the index used on images and on dates and what is
\* drawn.  dates[currentIndex] is read unchecked: at an index outside dates the
\* read is undefined, and either faults or yields the string garbage.
RECURSIVE PopulateDatesLoop(_, _, _, _, _, _, _, _, _, _, _, _, _)
PopulateDatesLoop(imageCount, dates, origin1, columns, rows, horizontalCellDisplacement, verticalCellDisplacement, exitSelected, garbage, currentRow, currentColumn, cellIndex, cells) ==
    IF ~(currentRow < rows) THEN [cells |-> cells, fault |-> "none"]
    ELSE IF ~(currentColumn < columns)
    THEN PopulateDatesLoop(imageCount, dates, origin1, columns, rows,
                           horizontalCellDisplacement, verticalCellDisplacement,
                           exitSelected, garbage, currentRow + 1, 0, cellIndex, cells)
    ELSE IF cellIndex >= imageCount THEN [cells |-> cells, fault |-> "none"]
    ELSE LET currentIndex == currentRow * columns + currentColumn
             anchor == VecAdd(origin1,
                         ImVec2(QMul(F(currentColumn), horizontalCellDisplacement),
                                QMul(F(currentRow), verticalCellDisplacement)))
             inRange == currentIndex < Len(dates)
             date == IF inRange THEN dates[currentIndex + 1] ELSE garbage
             cell == [imagesIndex |-> currentIndex,
                      datesIndex |-> currentIndex,
                      anchor |-> anchor,
                      draw |-> IF date # "" THEN "RoundedImage"
                               ELSE IF exitSelected THEN "Sprite" ELSE "TintedSprite"]
         IN IF ~inRange /\ garbage = "SIGSEGV"
            THEN [cells |-> Append(cells, [imagesIndex |-> currentIndex,
                                           datesIndex |-> currentIndex,
                                           anchor |-> anchor, draw |-> "none"]),
                  fault |-> "SIGSEGV"]
            ELSE PopulateDatesLoop(imageCount, dates, origin1, columns, rows,
                                   horizontalCellDisplacement, verticalCellDisplacement,
                                   exitSelected, garbage,
                                   currentRow, currentColumn + 1, cellIndex + 1,
                                   Append(cells, cell))

\* Draw::PopulateSparseRoundedGridWithDates with imageCount images
PopulateSparseRoundedGridWithDates(imageCount, origin, columns, rows, cellWidth, cellHeight, spacing, dates, exitSelected, garbage) ==
    PopulateDatesLoop(imageCount, dates,
                      VecAdd(origin, ImVec2(spacing, spacing)),
                      columns, rows,
                      QAdd(cellWidth, spacing), QAdd(cellHeight, spacing),
                      exitSelected, garbage, 0, 0, 0, <<>>)

\* Draw::Grid: the size of the canvas the gridlines cover
GridDocumentSize(columns, rows, cellWidth, cellHeight, gridlineWidth) ==
    ImVec2(QAdd(QMul(F(columns + 1), gridlineWidth), QMul(cellWidth, F(columns))),
           QAdd(QMul(F(rows + 1), gridlineWidth), QMul(cellHeight, F(rows))))

\* Draw::Grid: the FilledRectangle calls it makes, in order, each with the
\* position and the size of the rectangle
Grid(origin, columns, rows, cellWidth, cellHeight, gridlineWidth) ==
    LET document == GridDocumentSize(columns, rows, cellWidth, cellHeight, gridlineWidth)
        horizontalGridlineSize == ImVec2(document.x, gridlineWidth)
        verticalGridlineSize == ImVec2(gridlineWidth, document.y)
        horizontalCellDisplacement == QAdd(cellWidth, gridlineWidth)
        verticalCellDisplacement == QAdd(cellHeight, gridlineWidth)
    IN [currentColumn \in 1..(columns + 1) |->
           [position |-> VecAdd(origin,
                           ImVec2(QMul(horizontalCellDisplacement, F(currentColumn - 1)), F(0))),
            rectangleSize |-> verticalGridlineSize]]
       \o [currentRow \in 1..(rows + 1) |->
           [position |-> VecAdd(origin,
                           ImVec2(F(0), QMul(verticalCellDisplacement, F(currentRow - 1)))),
            rectangleSize |-> horizontalGridlineSize]]

(***************************************************************************)
(* PositionTools: document, outer and inner alignment                      *)
(***************************************************************************)
\* Position::RightAlign
RightAlign(origin, documentWidth, lineHeight, line, objectDimensions) ==
    VecSub(VecAdd(origin, ImVec2(documentWidth, QMul(F(line), lineHeight))),
           objectDimensions)

\* an alignment that steps down the document, as CenterAlign does
LeftAlignDownward(origin, lineHeight, line, objectDimensions) ==
    ImVec2(origin.x, QAdd(origin.y, QMul(F(line), lineHeight)))

\* Position::LeftAlign
LeftAlign(origin, lineHeight, line, objectDimensions) ==
    VecSub(VecSub(origin, ImVec2(F(0), QMul(lineHeight, F(line)))),
           ImVec2(F(0), objectDimensions.y))

\* Position::CenterAlign
CenterAlign(origin, documentWidth, lineHeight, line, objectDimensions) ==
    LET x == QAdd(origin.x, QDiv(QSub(documentWidth, objectDimensions.x), F(2)))
        y == QAdd(origin.y, QMul(F(line), lineHeight))
    IN ImVec2(x, y)

\* a slip that forgets the size of the centered object
Center2DOfTargetOnly(origin, targetObjectDimensions, centeredObjectDimensions) ==
    VecAdd(origin, ImVec2(QDiv(targetObjectDimensions.x, F(2)),
                          QDiv(targetObjectDimensions.y, F(2))))

\* Position::Center2D
Center2D(origin, targetObjectDimensions, centeredObjectDimensions) ==
    VecAdd(origin,
           ImVec2(QDiv(QSub(targetObjectDimensions.x, centeredObjectDimensions.x), F(2)),
                  QDiv(QSub(targetObjectDimensions.y, centeredObjectDimensions.y), F(2))))

\* a slip that forgets the width of the centered object
CenterOnLeftSideNoWidth(targetObjectOrigin, targetObjectDimensions, centeredObjectDimensions, distanceApart) ==
    ImVec2(QSub(targetObjectOrigin.x, distanceApart),
           QAdd(targetObjectOrigin.y,
                QDiv(QSub(targetObjectDimensions.y, centeredObjectDimensions.y), F(2))))

\* Position::CenterOnLeftSide
CenterOnLeftSide(targetObjectOrigin, targetObjectDimensions, centeredObjectDimensions, distanceApart) ==
    LET x == QSub(QSub(targetObjectOrigin.x, distanceApart), centeredObjectDimensions.x)
        y == QAdd(targetObjectOrigin.y,
                  QDiv(QSub(targetObjectDimensions.y, centeredObjectDimensions.y), F(2)))
    IN ImVec2(x, y)

\* Position::CenterAbove
CenterAbove(targetObjectOrigin, targetObjectDimensions, centeredObjectDimensions, distanceApart) ==
    LET absoluteCenter == Center2D(targetObjectOrigin, targetObjectDimensions,
                                   centeredObjectDimensions)
    IN VecSub(absoluteCenter,
              ImVec2(F(0), QAdd(distanceApart, QDiv(targetObjectDimensions.y, F(2)))))

\* Position::CenterOnRightSide
CenterOnRightSide(targetObjectOrigin, targetObjectDimensions, centeredObjectDimensions, distanceApart) ==
    LET x == QAdd(QAdd(targetObjectOrigin.x, targetObjectDimensions.x), distanceApart)
        y == QAdd(targetObjectOrigin.y,
                  QDiv(QSub(targetObjectDimensions.y, centeredObjectDimensions.y), F(2)))
    IN ImVec2(x, y)

\* Position::BottomAlignOnRightSide
BottomAlignOnRightSide(targetObjectOrigin, targetObjectDimensions, alignedObjectDimensions, distanceApart) ==
    LET x == QAdd(QAdd(targetObjectOrigin.x, targetObjectDimensions.x), distanceApart)
        y == QAdd(targetObjectOrigin.y,
                  QSub(targetObjectDimensions.y, alignedObjectDimensions.y))
    IN ImVec2(x, y)

\* Position::TopAlignOnRightSide
TopAlignOnRightSide(targetObjectOrigin, targetObjectDimensions, distanceApart) ==
    LET x == QAdd(QAdd(targetObjectOrigin.x, targetObjectDimensions.x), distanceApart)
        y == targetObjectOrigin.y
    IN ImVec2(x, y)

\* Position::InnerAlignCenterLeft
InnerAlignCenterLeft(targetObjectOrigin, targetObjectDimensions, centeredObjectDimensions) ==
    LET centeringDisplacement ==
            QDiv(QSub(targetObjectDimensions.y, centeredObjectDimensions.y), F(2))
        y == QAdd(targetObjectOrigin.y, centeringDisplacement)
        x == QAdd(targetObjectOrigin.x, centeringDisplacement)
    IN ImVec2(x, y)

\* a slip that puts the object flush with the right edge
InnerAlignCenterRightFlush(targetObjectOrigin, targetObjectDimensions, centeredObjectDimensions) ==
    ImVec2(QSub(QAdd(targetObjectOrigin.x, targetObjectDimensions.x),
                centeredObjectDimensions.x),
           QAdd(targetObjectOrigin.y,
                QDiv(QSub(targetObjectDimensions.y, centeredObjectDimensions.y), F(2))))

\* Position::InnerAlignCenterRight
InnerAlignCenterRight(targetObjectOrigin, targetObjectDimensions, centeredObjectDimensions) ==
    LET centeringDisplacement ==
            QDiv(QSub(targetObjectDimensions.y, centeredObjectDimensions.y), F(2))
        y == QAdd(targetObjectOrigin.y, centeringDisplacement)
        x == QSub(QSub(QAdd(targetObjectOrigin.x, targetObjectDimensions.x),
                       centeredObjectDimensions.x),
                  centeringDisplacement)
    IN ImVec2(x, y)

\* a slip that adds the gap on the x axis instead of subtracting it
InnerAlignBottomRightGapAdded(targetObjectOrigin, targetObjectDimensions, alignedObjectDimensions, gap) ==
    ImVec2(QAdd(QSub(QAdd(targetObjectOrigin.x, targetObjectDimensions.x),
                     alignedObjectDimensions.x), gap),
           QSub(QSub(QAdd(targetObjectOrigin.y, targetObjectDimensions.y), gap),
                alignedObjectDimensions.y))

\* Position::InnerAlignBottomRight
InnerAlignBottomRight(targetObjectOrigin, targetObjectDimensions, alignedObjectDimensions, gap) ==
    LET x == QSub(QSub(QAdd(targetObjectOrigin.x, targetObjectDimensions.x),
                       alignedObjectDimensions.x), gap)
        y == QSub(QSub(QAdd(targetObjectOrigin.y, targetObjectDimensions.y), gap),
                  alignedObjectDimensions.y)
    IN ImVec2(x, y)

\* Position::InnerAlignTopLeft
InnerAlignTopLeft(targetObjectOrigin, gap) ==
    LET x == QAdd(targetObjectOrigin.x, gap)
        y == QAdd(targetObjectOrigin.y, gap)
    IN ImVec2(x, y)

\* Position::InnerAlignBottomLeft
InnerAlignBottomLeft(targetObjectOrigin, targetObjectDimensions, alignedObjectDimensions, gap) ==
    LET x == QAdd(targetObjectOrigin.x, gap)
        y == QSub(QSub(QAdd(targetObjectOrigin.y, targetObjectDimensions.y), gap),
                  alignedObjectDimensions.y)
    IN ImVec2(x, y)

\* Position::InnerAlignBottomCenter
InnerAlignBottomCenter(targetObjectOrigin, targetObjectDimensions, alignedObjectDimensions, gap) ==
    LET x == QAdd(targetObjectOrigin.x,
                  QDiv(QSub(targetObjectDimensions.x, alignedObjectDimensions.x), F(2)))
        y == QSub(QSub(QAdd(targetObjectOrigin.y, targetObjectDimensions.y),
                       alignedObjectDimensions.y), gap)
    IN ImVec2(x, y)

\* Position::FrameWithin (the frames and the padding are finite)
FrameWithin(outerFrame, innerFrame, padding) ==
    LET innerAspectRatio == FloatDiv(innerFrame.x, innerFrame.y)
        outerAspectRatio == FloatDiv(outerFrame.x, outerFrame.y)
    IN IF FloatGreater(innerAspectRatio, outerAspectRatio)
       THEN LET x == QSub(outerFrame.x, QMul(F(2), padding))
                y == FloatDiv(x, innerAspectRatio)
            IN ImVec2(x, y)
       ELSE LET y == QSub(outerFrame.y, QMul(F(2), padding))
                x == FloatMul(y, innerAspectRatio)
            IN ImVec2(x, y)

(***************************************************************************)
(* DrawTools: the composite draw functions.  Each gives the commands it    *)
(* appends to the window draw list, in order.                              *)
(*                                                                         *)
(* A position on the canvas is a record [base, shift]: the point base      *)
(* displaced by the vector (cosf(angle), sinf(angle)) * radius, with       *)
(* angle = segment * 2 * IM_PI / segments; the cosine and sine are kept    *)
(* symbolic.                                                               *)
(***************************************************************************)
segments == 32

Polar(segment, radius) == [segment |-> segment, radius |-> radius]
Place(point) == [base |-> point, shift |-> Polar(0, F(0))]
Shifted(position, offset) == [position EXCEPT !.shift = offset]
Translate(position, by) == [position EXCEPT !.base = VecAdd(@, by)]

IM_COL32_WHITE == <<255, 255, 255, 255>>
IM_COL32_BLACK == <<0, 0, 0, 255>>

\* (color & 0x00FFFFFF) | (ImU32)(alpha * 255.0f) << 24, alpha in [0, 1]
WithAlpha(color, alpha) ==
    <<color[1], color[2], color[3], (alpha[1] * 255) \div alpha[2]>>

\* Draw::Text
Text(text, color, transparency, position, font, fontSize) ==
    <<[fn |-> "AddText", font |-> font, fontSize |-> fontSize, pos |-> position,
       col |-> WithAlpha(color, transparency), text |-> text]>>

\* Draw::TextStroke: the copies i .. segments - 1 of the text
RECURSIVE TextStrokeFrom(_, _, _, _, _, _, _, _)
TextStrokeFrom(i, text, strokeColor, transparency, strokeWidth, position, font, fontSize) ==
    IF ~(i < segments) THEN <<>>
    ELSE Text(text, strokeColor, transparency, Shifted(position, Polar(i, strokeWidth)), font, fontSize)
         \o TextStrokeFrom(i + 1, text, strokeColor, transparency, strokeWidth, position, font, fontSize)

\* Draw::TextStroke
TextStroke(text, strokeColor, transparency, strokeWidth, position, font, fontSize) ==
    TextStrokeFrom(0, text, strokeColor, transparency, strokeWidth, position, font, fontSize)

\* a slip that draws the text under its stroke
TextWithStrokeTextFirst(text, strokeColor, textColor, transparency, strokeWidth, position, font, fontSize) ==
    Text(text, textColor, transparency, position, font, fontSize)
    \o TextStroke(text, strokeColor, transparency, strokeWidth, position, font, fontSize)

\* Draw::TextWithStroke
TextWithStroke(text, strokeColor, textColor, transparency, strokeWidth, position, font, fontSize) ==
    TextStroke(text, strokeColor, transparency, strokeWidth, position, font, fontSize)
    \o Text(text, textColor, transparency, position, font, fontSize)

\* Draw::FilledRectangle
FilledRectangle(color, transparency, position, rectangleSize) ==
    <<[fn |-> "AddRectFilled", p_min |-> position,
       p_max |-> Translate(position, rectangleSize),
       col |-> WithAlpha(color, transparency), rounding |-> F(0)]>>

\* Draw::FilledRoundedRectangle
FilledRoundedRectangle(color, transparency, position, rectangleSize, rounding) ==
    <<[fn |-> "AddRectFilled", p_min |-> position,
       p_max |-> Translate(position, rectangleSize),
       col |-> WithAlpha(color, transparency), rounding |-> rounding]>>

\* Draw::FilledRectangleWithStroke
FilledRectangleWithStroke(color, strokeColor, transparency, position, rectangleSize, strokeWidth) ==
    FilledRectangle(strokeColor, transparency,
                    Place(ImVec2(QSub(position.base.x, strokeWidth),
                                 QSub(position.base.y, strokeWidth))),
                    VecAdd(rectangleSize, ImVec2(QMul(strokeWidth, F(2)), QMul(strokeWidth, F(2)))))
    \o FilledRectangle(color, transparency, position, rectangleSize)

\* Draw::Highlight; textSize is what ImGui::CalcTextSize returns for text
Highlight(text, textSize, font, width, color, transparency, position, fontSize) ==
    LET highlightOffset == Translate(position, ImVec2(QSub(F(0), width), QSub(F(0), width)))
        rectangleSize == VecAdd(textSize, ImVec2(QMul(F(2), width), QMul(F(2), width)))
    IN FilledRectangle(color, transparency, highlightOffset, rectangleSize)

\* Draw::HighlightRounded; PushFont and PopFont leave the font stack as it was
HighlightRounded(text, textSize, font, width, color, transparency, position, fontSize, rounding) ==
    LET highlightOffset == Translate(position, ImVec2(QSub(F(0), width), QSub(F(0), width)))
        rectangleSize == VecAdd(textSize, ImVec2(QMul(F(2), width), QMul(F(2), width)))
    IN FilledRoundedRectangle(color, transparency, highlightOffset, rectangleSize, rounding)

\* Draw::TextWithHighlight
TextWithHighlight(text, textSize, font, highlightWidth, textColor, highlightColor, textTransparency, highlightTransparency, position, fontSize) ==
    Highlight(text, textSize, font, highlightWidth, highlightColor, highlightTransparency, position, fontSize)
    \o Text(text, textColor, textTransparency, position, font, fontSize)

\* Draw::TextWithRoundedHighlight
TextWithRoundedHighlight(text, textSize, font, highlightWidth, textColor, highlightColor, textTransparency, highlightTransparency, position, fontSize, rounding) ==
    HighlightRounded(text, textSize, font, highlightWidth, highlightColor, highlightTransparency, position, fontSize, rounding)
    \o Text(text, textColor, textTransparency, position, font, fontSize)

\* Draw::StrokedTextWithHighlight
StrokedTextWithHighlight(text, textSize, font, highlightWidth, strokeWidth, textColor, highlightColor, strokeColor, textTransparency, highlightTransparency, position, fontSize) ==
    Highlight(text, textSize, font, highlightWidth, highlightColor, highlightTransparency, position, F(0))
    \o TextWithStroke(text, strokeColor, textColor, textTransparency, strokeWidth, position, font, F(0))

\* Draw::BoxAround
BoxAround(size, position, width, color, transparency, rounding, rectangleFlags) ==
    <<[fn |-> "AddRect",
       p_min |-> Translate(position, ImVec2(QSub(F(0), width), QSub(F(0), width))),
       p_max |-> Translate(Translate(position, size), ImVec2(width, width)),
       col |-> WithAlpha(color, transparency), rounding |-> rounding,
       flags |-> rectangleFlags, thickness |-> width]>>

\* Draw::BoxAroundWithStroke: the stroke boxes i .. segments - 1
RECURSIVE BoxStrokeFrom(_, _, _, _, _, _, _, _, _)
BoxStrokeFrom(i, size, offset, width, strokeWidth, strokeColor, transparency, rounding, rectangleFlags) ==
    IF ~(i < segments) THEN <<>>
    ELSE BoxAround(size, Shifted(offset, Polar(i, strokeWidth)), width, strokeColor, transparency, rounding, rectangleFlags)
         \o BoxStrokeFrom(i + 1, size, offset, width, strokeWidth, strokeColor, transparency, rounding, rectangleFlags)

\* Draw::BoxAroundWithStroke
BoxAroundWithStroke(size, offset, width, color, strokeWidth, strokeColor, transparency, rounding, rectangleFlags) ==
    BoxStrokeFrom(0, size, offset, width, strokeWidth, strokeColor, transparency, rounding, rectangleFlags)
    \o BoxAround(size, offset, width, color, transparency, rounding, rectangleFlags)

(***************************************************************************)
(* Texture::Load (TextureLoader.cpp)                                       *)
(***************************************************************************)
\* struct TextureData
TextureData(id, width, height) == [id |-> id, width |-> width, height |-> height]

\* before any call of Load: no file is open and no texture was generated
InitLoader ==
    [ pc |-> "idle",           \* position inside Load / LoadTextureFromFile
      loads |-> 0,             \* calls of Load so far
      openFiles |-> 0,         \* FILE handles opened by fopen and not yet closed
      textures |-> 0,          \* texture names generated by glGenTextures so far
      texture_id |-> 0,        \* the locals of Load
      width |-> 0,
      height |-> 0,
      ret |-> FALSE,           \* what LoadTextureFromFile returned
      outcome |-> [kind |-> "none"] ]

(***************************************************************************)
(* The Window driven by its host: construction, viewport resizes, renders. *)
(***************************************************************************)
DesignedWidths == {F(100), F(640)}
DesignedHeights == {F(100)}
DesignedPositionsX == {F(40)}
DesignedPositionsY == {F(30)}
ViewportWidths == {F(1920), F(3840), F(5120)}
ViewportHeights == {F(1080), F(2160), F(1440)}
BackgroundColors == {DEFAULT_BG, RGBtoImVec4(F(255), F(0), F(0), Q(1, 2))}

NoCall == [fn |-> "none"]

InitWindow ==
    /\ debug \in BOOLEAN
    /\ win \in {Window(dw, dh, px, py) :
                   dw \in DesignedWidths, dh \in DesignedHeights,
                   px \in DesignedPositionsX, py \in DesignedPositionsY}
    /\ viewport \in {ImVec2(vw, vh) : vw \in ViewportWidths, vh \in ViewportHeights}
    /\ clock = 0
    /\ pc = "idle"
    /\ imgui = [regions |-> 0, styleColors |-> 0]
    /\ log = <<>>
    /\ assigned = {}

Init ==
    /\ InitWindow
    /\ args = NoCall
    /\ ret = NoCall
    /\ loader = InitLoader

\* the host resizes its main viewport between renders
Resize ==
    /\ pc = "idle"
    /\ \E vw \in ViewportWidths, vh \in ViewportHeights :
          /\ ImVec2(vw, vh) # viewport
          /\ viewport' = ImVec2(vw, vh)
    /\ UNCHANGED <<debug, win, clock, pc, imgui, log, assigned, callVars, loaderVars>>

\* time passes between renders
Tick ==
    /\ pc = "idle"
    /\ clock < MaxClock
    /\ clock' = clock + 1
    /\ UNCHANGED <<debug, win, viewport, pc, imgui, log, assigned, callVars, loaderVars>>

\* Window::render up to the call of buildStart
render ==
    /\ pc = "idle"
    /\ imgui.regions < MaxOpenRegions
    /\ win' = [win EXCEPT !.currentTime = F(clock)]
    /\ log' = <<>>
    /\ pc' = "buildStart"
    /\ UNCHANGED <<debug, viewport, clock, imgui, assigned, callVars, loaderVars>>

\* render: buildStart runs and draw() is entered
renderBuildStart ==
    /\ pc = "buildStart"
    /\ LET r == buildStart(win, viewport, debug)
       IN /\ win' = r.win
          /\ assigned' = r.assigned
          /\ log' = log \o r.calls \o <<Call("draw", <<>>)>>
          /\ imgui' = Issue(imgui, r.calls)
    /\ pc' = "draw"
    /\ UNCHANGED <<debug, viewport, clock, callVars, loaderVars>>

\* draw() returns and render goes on to buildEnd
drawReturns ==
    /\ pc = "draw"
    /\ pc' = "buildEnd"
    /\ UNCHANGED <<debug, win, viewport, clock, imgui, log, assigned, callVars, loaderVars>>

\* draw() raises an exception, which leaves render
drawThrows ==
    /\ pc = "draw"
    /\ pc' = "idle"
    /\ log' = Append(log, Call("throw", <<>>))
    /\ UNCHANGED <<debug, win, viewport, clock, imgui, assigned, callVars, loaderVars>>

\* render: buildEnd runs and render returns
renderBuildEnd ==
    /\ pc = "buildEnd"
    /\ log' = log \o buildEnd
    /\ imgui' = Issue(imgui, buildEnd)
    /\ pc' = "idle"
    /\ UNCHANGED <<debug, win, viewport, clock, assigned, callVars, loaderVars>>

\* the host, or draw(), sets the background colour
SetBackgroundColor ==
    /\ pc \in {"idle", "draw"}
    /\ \E color \in BackgroundColors :
          /\ color # win.backgroundColor
          /\ win' = setBackgroundColor(win, color)
    /\ UNCHANGED <<debug, viewport, clock, pc, imgui, log, assigned, callVars, loaderVars>>

\* the host, or draw(), shows or hides the background
SetBackgroundVisibility ==
    /\ pc \in {"idle", "draw"}
    /\ \E visible \in BOOLEAN :
          /\ visible # win.hasBackground
          /\ win' = setBackgroundVisibility(win, visible)
    /\ UNCHANGED <<debug, viewport, clock, pc, imgui, log, assigned, callVars, loaderVars>>

Next ==
    \/ Resize
    \/ Tick
    \/ render
    \/ renderBuildStart
    \/ drawReturns
    \/ drawThrows
    \/ renderBuildEnd
    \/ SetBackgroundColor
    \/ SetBackgroundVisibility

Spec == Init /\ [][Next]_vars

(***************************************************************************)
(* Calls of the grid functions on drawn inputs.                            *)
(***************************************************************************)
Origins == {ImVec2(F(0), F(0)), ImVec2(F(5), F(7))}
CellWidths == {F(10), F(20)}
CellHeights == {F(10)}
GridlineWidths == {F(2), F(3)}

InitGrid ==
    /\ debug = FALSE
    /\ win = Window(F(100), F(100), F(0), F(30))
    /\ viewport = ImVec2(DEFAULT_VIEWPORT_WIDTH, DEFAULT_VIEWPORT_HEIGHT)
    /\ clock = 0
    /\ pc = "idle"
    /\ imgui = [regions |-> 0, styleColors |-> 0]
    /\ log = <<>>
    /\ assigned = {}
    /\ args = NoCall
    /\ ret = NoCall
    /\ loader = InitLoader

CallGridTranslocatedOrigin ==
    /\ ret = NoCall
    /\ \E origin \in Origins, cellWidth \in CellWidths, cellHeight \in CellHeights,
          gridlineWidth \in GridlineWidths,
          columns \in 1..MaxColumns, rows \in 1..MaxRows,
          cellNumber \in 0..(MaxColumns * MaxRows - 1) :
          /\ args' = [fn |-> "GridTranslocatedOrigin", origin |-> origin,
                      cellWidth |-> cellWidth, cellHeight |-> cellHeight,
                      gridlineWidth |-> gridlineWidth,
                      columns |-> columns, rows |-> rows, cellNumber |-> cellNumber]
          /\ ret' = [fn |-> "GridTranslocatedOrigin",
                     value |-> GridTranslocatedOrigin(origin, cellWidth, cellHeight,
                                  gridlineWidth, columns, rows, cellNumber)]
    /\ UNCHANGED <<windowVars, loaderVars>>

CallPopulateGrid ==
    /\ ret = NoCall
    /\ \E imageCount \in 0..MaxImages,
          origin \in Origins, cellWidth \in CellWidths, cellHeight \in CellHeights,
          gridlineWidth \in GridlineWidths,
          columns \in 0..MaxColumns, rows \in 0..MaxRows :
          /\ args' = [fn |-> "PopulateGrid", imageCount |-> imageCount,
                      origin |-> origin,
                      cellWidth |-> cellWidth, cellHeight |-> cellHeight,
                      gridlineWidth |-> gridlineWidth,
                      columns |-> columns, rows |-> rows]
          /\ ret' = [fn |-> "PopulateGrid",
                     value |-> PopulateGrid(imageCount, origin, columns, rows,
                                            cellWidth, cellHeight, gridlineWidth)]
    /\ UNCHANGED <<windowVars, loaderVars>>

CallPopulateSparseRoundedGrid ==
    /\ ret = NoCall
    /\ \E imageCount \in 0..MaxImages,
          origin \in Origins, cellWidth \in CellWidths, cellHeight \in CellHeights,
          spacing \in GridlineWidths,
          columns \in 0..MaxColumns, rows \in 0..MaxRows :
          /\ args' = [fn |-> "PopulateSparseRoundedGrid", imageCount |-> imageCount,
                      origin |-> origin,
                      cellWidth |-> cellWidth, cellHeight |-> cellHeight,
                      gridlineWidth |-> spacing,
                      columns |-> columns, rows |-> rows]
          /\ ret' = [fn |-> "PopulateSparseRoundedGrid",
                     value |-> PopulateSparseRoundedGrid(imageCount, origin, columns, rows,
                                                         cellWidth, cellHeight, spacing)]
    /\ UNCHANGED <<windowVars, loaderVars>>

CallGrid ==
    /\ ret = NoCall
    /\ \E origin \in Origins, cellWidth \in CellWidths, cellHeight \in CellHeights,
          gridlineWidth \in GridlineWidths,
          columns \in 1..MaxColumns, rows \in 1..MaxRows :
          /\ args' = [fn |-> "Grid", origin |-> origin,
                      cellWidth |-> cellWidth, cellHeight |-> cellHeight,
                      gridlineWidth |-> gridlineWidth,
                      columns |-> columns, rows |-> rows]
          /\ ret' = [fn |-> "Grid",
                     value |-> Grid(origin, columns, rows,
                                    cellWidth, cellHeight, gridlineWidth)]
    /\ UNCHANGED <<windowVars, loaderVars>>

NextGrid ==
    \/ CallGridTranslocatedOrigin
    \/ CallPopulateGrid
    \/ CallPopulateSparseRoundedGrid
    \/ CallGrid

SpecGrid == InitGrid /\ [][NextGrid]_vars

(***************************************************************************)
(* Calls of the alignment functions on drawn inputs.                       *)
(***************************************************************************)
TargetOrigins == {ImVec2(F(0), F(0)), ImVec2(F(5), F(7))}
TargetDimensions == {ImVec2(F(100), F(50)), ImVec2(F(10), F(10))}
ObjectDimensions == {ImVec2(F(20), F(10)), ImVec2(F(30), F(81))}
Gaps == {F(0), F(5)}
DocumentWidths == {F(200), F(25)}
LineHeights == {F(0), F(20)}

\* a call with the arguments a returns value
Returns(a, value) ==
    /\ ret = NoCall
    /\ args' = a
    /\ ret' = [fn |-> a.fn, value |-> value]
    /\ UNCHANGED <<windowVars, loaderVars>>

CallRightAlign ==
    \E origin \in TargetOrigins, documentWidth \in DocumentWidths,
       lineHeight \in LineHeights, line \in 0..MaxLine,
       objectDimensions \in ObjectDimensions :
       Returns([fn |-> "RightAlign", origin |-> origin, documentWidth |-> documentWidth,
                lineHeight |-> lineHeight, line |-> line,
                objectDimensions |-> objectDimensions],
               RightAlign(origin, documentWidth, lineHeight, line, objectDimensions))

CallLeftAlign ==
    \E origin \in TargetOrigins, lineHeight \in LineHeights, line \in 0..MaxLine,
       objectDimensions \in ObjectDimensions :
       Returns([fn |-> "LeftAlign", origin |-> origin,
                lineHeight |-> lineHeight, line |-> line,
                objectDimensions |-> objectDimensions],
               LeftAlign(origin, lineHeight, line, objectDimensions))

CallCenterAlign ==
    \E origin \in TargetOrigins, documentWidth \in DocumentWidths,
       lineHeight \in LineHeights, line \in 0..MaxLine,
       objectDimensions \in ObjectDimensions :
       Returns([fn |-> "CenterAlign", origin |-> origin, documentWidth |-> documentWidth,
                lineHeight |-> lineHeight, line |-> line,
                objectDimensions |-> objectDimensions],
               CenterAlign(origin, documentWidth, lineHeight, line, objectDimensions))

CallCenter2D ==
    \E origin \in TargetOrigins, target \in TargetDimensions, object \in ObjectDimensions :
       Returns([fn |-> "Center2D", origin |-> origin, targetObjectDimensions |-> target,
                objectDimensions |-> object],
               Center2D(origin, target, object))

CallCenterOnLeftSide ==
    \E origin \in TargetOrigins, target \in TargetDimensions, object \in ObjectDimensions,
       distanceApart \in Gaps :
       Returns([fn |-> "CenterOnLeftSide", origin |-> origin,
                targetObjectDimensions |-> target, objectDimensions |-> object,
                distanceApart |-> distanceApart],
               CenterOnLeftSide(origin, target, object, distanceApart))

CallCenterAbove ==
    \E origin \in TargetOrigins, target \in TargetDimensions, object \in ObjectDimensions,
       distanceApart \in Gaps :
       Returns([fn |-> "CenterAbove", origin |-> origin,
                targetObjectDimensions |-> target, objectDimensions |-> object,
                distanceApart |-> distanceApart],
               CenterAbove(origin, target, object, distanceApart))

CallCenterOnRightSide ==
    \E origin \in TargetOrigins, target \in TargetDimensions, object \in ObjectDimensions,
       distanceApart \in Gaps :
       Returns([fn |-> "CenterOnRightSide", origin |-> origin,
                targetObjectDimensions |-> target, objectDimensions |-> object,
                distanceApart |-> distanceApart],
               CenterOnRightSide(origin, target, object, distanceApart))

CallBottomAlignOnRightSide ==
    \E origin \in TargetOrigins, target \in TargetDimensions, object \in ObjectDimensions,
       distanceApart \in Gaps :
       Returns([fn |-> "BottomAlignOnRightSide", origin |-> origin,
                targetObjectDimensions |-> target, objectDimensions |-> object,
                distanceApart |-> distanceApart],
               BottomAlignOnRightSide(origin, target, object, distanceApart))

CallTopAlignOnRightSide ==
    \E origin \in TargetOrigins, target \in TargetDimensions, distanceApart \in Gaps :
       Returns([fn |-> "TopAlignOnRightSide", origin |-> origin,
                targetObjectDimensions |-> target, distanceApart |-> distanceApart],
               TopAlignOnRightSide(origin, target, distanceApart))

CallInnerAlignCenterLeft ==
    \E origin \in TargetOrigins, target \in TargetDimensions, object \in ObjectDimensions :
       Returns([fn |-> "InnerAlignCenterLeft", origin |-> origin,
                targetObjectDimensions |-> target, objectDimensions |-> object],
               InnerAlignCenterLeft(origin, target, object))

CallInnerAlignCenterRight ==
    \E origin \in TargetOrigins, target \in TargetDimensions, object \in ObjectDimensions :
       Returns([fn |-> "InnerAlignCenterRight", origin |-> origin,
                targetObjectDimensions |-> target, objectDimensions |-> object],
               InnerAlignCenterRight(origin, target, object))

CallInnerAlignBottomRight ==
    \E origin \in TargetOrigins, target \in TargetDimensions, object \in ObjectDimensions,
       gap \in Gaps :
       Returns([fn |-> "InnerAlignBottomRight", origin |-> origin,
                targetObjectDimensions |-> target, objectDimensions |-> object,
                gap |-> gap],
               InnerAlignBottomRight(origin, target, object, gap))

CallInnerAlignTopLeft ==
    \E origin \in TargetOrigins, gap \in Gaps :
       Returns([fn |-> "InnerAlignTopLeft", origin |-> origin, gap |-> gap],
               InnerAlignTopLeft(origin, gap))

CallInnerAlignBottomLeft ==
    \E origin \in TargetOrigins, target \in TargetDimensions, object \in ObjectDimensions,
       gap \in Gaps :
       Returns([fn |-> "InnerAlignBottomLeft", origin |-> origin,
                targetObjectDimensions |-> target, objectDimensions |-> object,
                gap |-> gap],
               InnerAlignBottomLeft(origin, target, object, gap))

CallInnerAlignBottomCenter ==
    \E origin \in TargetOrigins, target \in TargetDimensions, object \in ObjectDimensions,
       gap \in Gaps :
       Returns([fn |-> "InnerAlignBottomCenter", origin |-> origin,
                targetObjectDimensions |-> target, objectDimensions |-> object,
                gap |-> gap],
               InnerAlignBottomCenter(origin, target, object, gap))

InitPosition == InitGrid

NextPosition ==
    \/ CallRightAlign
    \/ CallLeftAlign
    \/ CallCenterAlign
    \/ CallCenter2D
    \/ CallCenterOnLeftSide
    \/ CallCenterAbove
    \/ CallCenterOnRightSide
    \/ CallBottomAlignOnRightSide
    \/ CallTopAlignOnRightSide
    \/ CallInnerAlignCenterLeft
    \/ CallInnerAlignCenterRight
    \/ CallInnerAlignBottomRight
    \/ CallInnerAlignTopLeft
    \/ CallInnerAlignBottomLeft
    \/ CallInnerAlignBottomCenter

SpecPosition == InitPosition /\ [][NextPosition]_vars

(***************************************************************************)
(* Calls of PopulateSparseRoundedGridWithDates on drawn inputs.            *)
(***************************************************************************)
\* a date string: empty for an icon, not empty for a screenshot
Dates == {"", "7/23/2025"}

\* the sequences of at most n dates
DateVectors(n) == UNION {[1..k -> Dates] : k \in 0..n}

\* what a read outside dates can produce
OutOfRangeReads == {"SIGSEGV", "", "\\x7f"}

CallPopulateSparseRoundedGridWithDates ==
    /\ ret = NoCall
    /\ \E imageCount \in 0..MaxImages, dates \in DateVectors(MaxDates),
          origin \in Origins, cellWidth \in CellWidths, cellHeight \in CellHeights,
          spacing \in GridlineWidths,
          columns \in 0..MaxColumns, rows \in 0..MaxRows,
          exitSelected \in BOOLEAN, garbage \in OutOfRangeReads :
          /\ args' = [fn |-> "PopulateSparseRoundedGridWithDates",
                      imageCount |-> imageCount, dates |-> dates,
                      origin |-> origin,
                      cellWidth |-> cellWidth, cellHeight |-> cellHeight,
                      gridlineWidth |-> spacing,
                      columns |-> columns, rows |-> rows,
                      exitSelected |-> exitSelected]
          /\ ret' = [fn |-> "PopulateSparseRoundedGridWithDates",
                     value |-> PopulateSparseRoundedGridWithDates(imageCount, origin,
                                  columns, rows, cellWidth, cellHeight, spacing,
                                  dates, exitSelected, garbage)]
    /\ UNCHANGED <<windowVars, loaderVars>>

InitDates == InitGrid

NextDates == CallPopulateSparseRoundedGridWithDates

SpecDates == InitDates /\ [][NextDates]_vars

(***************************************************************************)
(* Calls of the colour conversions on drawn inputs.                        *)
(***************************************************************************)
Channels == {F(0), F(144), F(146), F(148), F(255)}
Alphas == {F(0), Q(1, 2), F(1)}

CallRGBtoImU32 ==
    \E r \in Channels, g \in Channels, b \in Channels, a \in Alphas :
       Returns([fn |-> "RGBtoImU32", r |-> r, g |-> g, b |-> b, a |-> a],
               RGBtoImU32(r, g, b, a))

CallRGBtoImVec4 ==
    \E r \in Channels, g \in Channels, b \in Channels, a \in Alphas :
       Returns([fn |-> "RGBtoImVec4", r |-> r, g |-> g, b |-> b, a |-> a],
               RGBtoImVec4(r, g, b, a))

InitColor == InitGrid

NextColor ==
    \/ CallRGBtoImU32
    \/ CallRGBtoImVec4

SpecColor == InitColor /\ [][NextColor]_vars

(***************************************************************************)
(* Calls of the composite draw functions on drawn inputs.                  *)
(***************************************************************************)
Colors == {IM_COL32_WHITE, IM_COL32_BLACK, <<50, 50, 200, 255>>}
Transparencies == {F(1), Q(1, 2)}
StrokeWidths == {F(2), F(3)}
TextSizes == {ImVec2(F(40), F(12))}
RectangleSizes == {ImVec2(F(100), F(50)), ImVec2(F(10), F(10))}

CallTextWithStroke ==
    \E strokeColor \in Colors, textColor \in Colors, transparency \in Transparencies,
       strokeWidth \in StrokeWidths, position \in Origins :
       Returns([fn |-> "TextWithStroke", strokeColor |-> strokeColor,
                textColor |-> textColor, transparency |-> transparency,
                strokeWidth |-> strokeWidth, position |-> position],
               TextWithStroke("text", strokeColor, textColor, transparency, strokeWidth,
                              Place(position), "font", F(16)))

CallTextWithHighlight ==
    \E textColor \in Colors, highlightColor \in Colors, textSize \in TextSizes,
       textTransparency \in Transparencies, highlightTransparency \in Transparencies,
       highlightWidth \in StrokeWidths, position \in Origins :
       Returns([fn |-> "TextWithHighlight", textColor |-> textColor,
                highlightColor |-> highlightColor, textSize |-> textSize,
                textTransparency |-> textTransparency,
                highlightTransparency |-> highlightTransparency,
                highlightWidth |-> highlightWidth, position |-> position],
               TextWithHighlight("text", textSize, "font", highlightWidth, textColor,
                                 highlightColor, textTransparency, highlightTransparency,
                                 Place(position), F(16)))

CallTextWithRoundedHighlight ==
    \E textColor \in Colors, highlightColor \in Colors, textSize \in TextSizes,
       textTransparency \in Transparencies, highlightTransparency \in Transparencies,
       highlightWidth \in StrokeWidths, position \in Origins :
       Returns([fn |-> "TextWithRoundedHighlight", textColor |-> textColor,
                highlightColor |-> highlightColor, textSize |-> textSize,
                textTransparency |-> textTransparency,
                highlightTransparency |-> highlightTransparency,
                highlightWidth |-> highlightWidth, position |-> position],
               TextWithRoundedHighlight("text", textSize, "font", highlightWidth, textColor,
                                        highlightColor, textTransparency,
                                        highlightTransparency, Place(position), F(16), F(4)))

CallStrokedTextWithHighlight ==
    \E textColor \in Colors, highlightColor \in Colors, strokeColor \in Colors,
       textSize \in TextSizes, textTransparency \in Transparencies,
       highlightWidth \in StrokeWidths, strokeWidth \in StrokeWidths :
       Returns([fn |-> "StrokedTextWithHighlight", textColor |-> textColor,
                highlightColor |-> highlightColor, strokeColor |-> strokeColor,
                textSize |-> textSize, textTransparency |-> textTransparency,
                highlightTransparency |-> F(1),
                highlightWidth |-> highlightWidth, strokeWidth |-> strokeWidth,
                position |-> ImVec2(F(5), F(7))],
               StrokedTextWithHighlight("text", textSize, "font", highlightWidth, strokeWidth,
                                        textColor, highlightColor, strokeColor,
                                        textTransparency, F(1),
                                        Place(ImVec2(F(5), F(7))), F(16)))

CallFilledRectangleWithStroke ==
    \E color \in Colors, strokeColor \in Colors, transparency \in Transparencies,
       position \in Origins, rectangleSize \in RectangleSizes,
       strokeWidth \in StrokeWidths :
       Returns([fn |-> "FilledRectangleWithStroke", color |-> color,
                strokeColor |-> strokeColor, transparency |-> transparency,
                position |-> position, rectangleSize |-> rectangleSize,
                strokeWidth |-> strokeWidth],
               FilledRectangleWithStroke(color, strokeColor, transparency,
                                         Place(position), rectangleSize, strokeWidth))

CallBoxAroundWithStroke ==
    \E size \in RectangleSizes, offset \in Origins, width \in StrokeWidths,
       color \in Colors, strokeWidth \in StrokeWidths, strokeColor \in Colors,
       transparency \in Transparencies :
       Returns([fn |-> "BoxAroundWithStroke", size |-> size, offset |-> offset,
                width |-> width, color |-> color, strokeWidth |-> strokeWidth,
                strokeColor |-> strokeColor, transparency |-> transparency],
               BoxAroundWithStroke(size, Place(offset), width, color, strokeWidth,
                                   strokeColor, transparency, F(4), {}))

InitDraw == InitGrid

NextDraw ==
    \/ CallTextWithStroke
    \/ CallTextWithHighlight
    \/ CallTextWithRoundedHighlight
    \/ CallStrokedTextWithHighlight
    \/ CallFilledRectangleWithStroke
    \/ CallBoxAroundWithStroke

SpecDraw == InitDraw /\ [][NextDraw]_vars

(***************************************************************************)
(* Calls of FrameWithin on drawn inputs.                                   *)
(***************************************************************************)
OuterFrames == {ImVec2(F(200), F(100)), ImVec2(F(100), F(100)), ImVec2(F(100), F(200)), ImVec2(F(160), F(90)), ImVec2(F(90), F(160))}
InnerFrames == {ImVec2(F(16), F(9)), ImVec2(F(21), F(10)), ImVec2(F(1), F(1)), ImVec2(F(9), F(16)), ImVec2(F(2), F(1))}
Paddings == {F(0), F(10), F(20), F(50), F(60)}

CallFrameWithin ==
    \E outerFrame \in OuterFrames, innerFrame \in InnerFrames, padding \in Paddings :
       Returns([fn |-> "FrameWithin", outerFrame |-> outerFrame,
                innerFrame |-> innerFrame, padding |-> padding],
               FrameWithin(outerFrame, innerFrame, padding))

InitFrame == InitGrid

NextFrame == CallFrameWithin

SpecFrame == InitFrame /\ [][NextFrame]_vars

(***************************************************************************)
(* Calls of GridTranslocatedOrigin and FrameWithin on degenerate geometry: *)
(* zero rows or columns, zero or negative cell sizes and frame dimensions. *)
(***************************************************************************)
\* GridTranslocatedOrigin: int row = cellNumber / rows; int col = cellNumber % columns.
\* With a zero divisor the int operations are undefined: the division
\* instruction of an x86 build traps (SIGFPE); that of an AArch64 build
\* yields quotient 0, and the remainder a - 0 * b = a.
GridCellOutcomes(columns, rows, cellNumber) ==
    IF rows = 0 \/ columns = 0
    THEN {[fault |-> "SIGFPE"],
          [row |-> IF rows = 0 THEN 0 ELSE CDiv(cellNumber, rows),
           col |-> IF columns = 0 THEN cellNumber ELSE CMod(cellNumber, columns)]}
    ELSE {[row |-> CDiv(cellNumber, rows), col |-> CMod(cellNumber, columns)]}

\* GridTranslocatedOrigin: the anchor computed from row and col
GridCellAnchor(origin, cellWidth, cellHeight, gridlineWidth, row, col) ==
    LET origin1 == VecAdd(origin, ImVec2(gridlineWidth, gridlineWidth))
        horizontalDisplacement == QAdd(cellWidth, gridlineWidth)
        verticalDisplacement == QAdd(cellHeight, gridlineWidth)
    IN ImVec2(QAdd(origin1.x, QMul(F(col), horizontalDisplacement)),
              QAdd(origin1.y, QMul(F(row), verticalDisplacement)))

\* what a call of GridTranslocatedOrigin can end in, any rows and columns
GridTranslocatedOriginOutcomes(origin, cellWidth, cellHeight, gridlineWidth, columns, rows, cellNumber) ==
    { IF "fault" \in DOMAIN cell
      THEN [fn |-> "GridTranslocatedOrigin", fault |-> cell.fault]
      ELSE [fn |-> "GridTranslocatedOrigin",
            value |-> GridCellAnchor(origin, cellWidth, cellHeight, gridlineWidth,
                                     cell.row, cell.col)]
      : cell \in GridCellOutcomes(columns, rows, cellNumber) }

DegenerateCellSizes == {F(0), F(-10), F(10)}
DegenerateOuterFrames == {ImVec2(F(0), F(0)), ImVec2(F(90), F(0)), ImVec2(F(0), F(160)), ImVec2(F(-90), F(160)), ImVec2(F(90), F(-160)), ImVec2(F(90), F(160))}
DegenerateInnerFrames == {ImVec2(F(0), F(0)), ImVec2(F(9), F(0)), ImVec2(F(0), F(16)), ImVec2(F(0), F(-16)), ImVec2(F(-9), F(16)), ImVec2(F(9), F(16))}
DegeneratePaddings == {F(0), F(10), F(45)}

CallGridTranslocatedOriginDegenerate ==
    /\ ret = NoCall
    /\ \E cellWidth \in DegenerateCellSizes, cellHeight \in DegenerateCellSizes,
          gridlineWidth \in GridlineWidths,
          columns \in 0..MaxColumns, rows \in 0..MaxRows,
          cellNumber \in 0..MaxColumns :
          /\ args' = [fn |-> "GridTranslocatedOrigin", origin |-> ImVec2(F(0), F(0)),
                      cellWidth |-> cellWidth, cellHeight |-> cellHeight,
                      gridlineWidth |-> gridlineWidth,
                      columns |-> columns, rows |-> rows, cellNumber |-> cellNumber]
          /\ ret' \in GridTranslocatedOriginOutcomes(ImVec2(F(0), F(0)), cellWidth,
                          cellHeight, gridlineWidth, columns, rows, cellNumber)
    /\ UNCHANGED <<windowVars, loaderVars>>

CallFrameWithinDegenerate ==
    \E outerFrame \in DegenerateOuterFrames, innerFrame \in DegenerateInnerFrames,
       padding \in DegeneratePaddings :
       Returns([fn |-> "FrameWithin", outerFrame |-> outerFrame,
                innerFrame |-> innerFrame, padding |-> padding],
               FrameWithin(outerFrame, innerFrame, padding))

InitDegenerate == InitGrid

NextDegenerate ==
    \/ CallGridTranslocatedOriginDegenerate
    \/ CallFrameWithinDegenerate

SpecDegenerate == InitDegenerate /\ [][NextDegenerate]_vars

(***************************************************************************)
(* Calls of the ImVec2 operators on drawn operands.                        *)
(***************************************************************************)
Vectors == {ImVec2(F(0), F(0)), ImVec2(F(5), F(7)), ImVec2(F(-3), F(4)), ImVec2(Q(1, 2), Q(-7, 3)), ImVec2(F(100), F(50))}
Scalars == {F(0), F(1), F(2), F(-3), Q(1, 3), Q(5, 7)}

CallOperatorPlus ==
    \E lhs \in Vectors, rhs \in Vectors :
       Returns([fn |-> "operator+", lhs |-> lhs, rhs |-> rhs], VecAdd(lhs, rhs))

CallOperatorMinus ==
    \E lhs \in Vectors, rhs \in Vectors :
       Returns([fn |-> "operator-", lhs |-> lhs, rhs |-> rhs], VecSub(lhs, rhs))

CallOperatorTimes ==
    \E lhs \in Vectors, rhs \in Scalars :
       Returns([fn |-> "operator*", lhs |-> lhs, rhs |-> rhs], VecMul(lhs, rhs))

CallOperatorDivide ==
    \E lhs \in Vectors, rhs \in Scalars :
       Returns([fn |-> "operator/", lhs |-> lhs, rhs |-> rhs], VecDiv(lhs, rhs))

InitVector == InitGrid

NextVector ==
    \/ CallOperatorPlus
    \/ CallOperatorMinus
    \/ CallOperatorTimes
    \/ CallOperatorDivide

SpecVector == InitVector /\ [][NextVector]_vars

(***************************************************************************)
(* Texture::Load called by a host, step by step; the file system, the      *)
(* decoder and OpenGL answer as they please.                               *)
(***************************************************************************)
ImageSizes == {<<16, 16>>, <<640, 480>>}

\* Load is entered: GLuint texture_id = 0; int width = 0, height = 0;
Load ==
    /\ loader.pc = "idle"
    /\ loader.loads < MaxLoads
    /\ loader' = [loader EXCEPT !.pc = "fopen", !.loads = @ + 1,
                                !.texture_id = 0, !.width = 0, !.height = 0,
                                !.ret = FALSE, !.outcome = [kind |-> "none"]]
    /\ UNCHANGED <<windowVars, callVars>>

\* LoadTextureFromFile: fopen returns NULL; return false
fopenFails ==
    /\ loader.pc = "fopen"
    /\ loader' = [loader EXCEPT !.pc = "returned", !.ret = FALSE]
    /\ UNCHANGED <<windowVars, callVars>>

\* LoadTextureFromFile: fopen returns a FILE handle
fopenOpens ==
    /\ loader.pc = "fopen"
    /\ loader' = [loader EXCEPT !.pc = "ftell", !.openFiles = @ + 1]
    /\ UNCHANGED <<windowVars, callVars>>

\* LoadTextureFromFile: ftell returns -1 (the stream cannot be sought);
\* return false
ftellFails ==
    /\ loader.pc = "ftell"
    /\ loader' = [loader EXCEPT !.pc = "returned", !.ret = FALSE]
    /\ UNCHANGED <<windowVars, callVars>>

\* LoadTextureFromFile: ftell returns the size; the file is read into
\* file_data and closed
freadAndClose ==
    /\ loader.pc = "ftell"
    /\ loader' = [loader EXCEPT !.pc = "LoadTextureFromMemory", !.openFiles = @ - 1]
    /\ UNCHANGED <<windowVars, callVars>>

\* LoadTextureFromMemory: stbi_load_from_memory returns NULL; return false,
\* which LoadTextureFromFile returns after IM_FREE
LoadTextureFromMemoryFails ==
    /\ loader.pc = "LoadTextureFromMemory"
    /\ loader' = [loader EXCEPT !.pc = "returned", !.ret = FALSE]
    /\ UNCHANGED <<windowVars, callVars>>

\* LoadTextureFromMemory: the image is decoded, a texture name is generated
\* and the three out parameters are written; return true
LoadTextureFromMemoryLoads ==
    /\ loader.pc = "LoadTextureFromMemory"
    /\ \E size \in ImageSizes :
          loader' = [loader EXCEPT !.pc = "returned", !.ret = TRUE,
                                   !.textures = @ + 1,
                                   !.texture_id = loader.textures + 1,
                                   !.width = size[1], !.height = size[2]]
    /\ UNCHANGED <<windowVars, callVars>>

\* Load: LoadTextureFromFile returned false; throw std::runtime_error
LoadThrows ==
    /\ loader.pc = "returned"
    /\ ~loader.ret
    /\ loader' = [loader EXCEPT !.pc = "idle", !.outcome = [kind |-> "threw"]]
    /\ UNCHANGED <<windowVars, callVars>>

\* Load: return TextureData{texture_id, width, height}
LoadReturns ==
    /\ loader.pc = "returned"
    /\ loader.ret
    /\ loader' = [loader EXCEPT !.pc = "idle",
                                !.outcome = [kind |-> "returned",
                                             value |-> TextureData(loader.texture_id,
                                                          loader.width, loader.height)]]
    /\ UNCHANGED <<windowVars, callVars>>

InitTexture == InitGrid

NextTexture ==
    \/ Load
    \/ fopenFails
    \/ fopenOpens
    \/ ftellFails
    \/ freadAndClose
    \/ LoadTextureFromMemoryFails
    \/ LoadTextureFromMemoryLoads
    \/ LoadThrows
    \/ LoadReturns

SpecTexture == InitTexture /\ [][NextTexture]_vars

(***************************************************************************)
(* Properties of the Window (checked under Spec).                          *)
(***************************************************************************)
\* the step in which render runs buildStart in a DEBUG build, i.e. one call
\* of updateScale observing viewport
UpdateScaleStep == debug /\ pc = "buildStart" /\ pc' = "draw"

\* C1: updateScale is memoized per axis: a call assigns scaleX if and only if
\* the observed viewport width differs from previousViewportWidth (likewise
\* scaleY and the height), and a call that observes the cached size on both
\* axes assigns nothing and leaves every field of the Window as it was.
C1_UpdateScaleMemoized ==
    [][UpdateScaleStep =>
        /\ ("scaleX" \in assigned') <=> (viewport.x # win.previousViewportWidth)
        /\ ("scaleY" \in assigned') <=> (viewport.y # win.previousViewportHeight)
        /\ (/\ viewport.x = win.previousViewportWidth
            /\ viewport.y = win.previousViewportHeight)
           => (assigned' = {} /\ win' = win)]_vars

\* a second observation of the same non-reference size has just been made
C1_Witness ==
    /\ debug
    /\ pc = "draw"
    /\ assigned = {}
    /\ win.previousViewportWidth = F(1920)
    /\ win.previousViewportHeight = F(1080)
    /\ viewport = ImVec2(F(1920), F(1080))

\* C2: in every reachable state the instantaneous geometry is the designed
\* geometry scaled per axis: dimensions = (designedWidth * scaleX,
\* designedHeight * scaleY), position = (designedPositionX * scaleX,
\* designedPositionY * scaleY).
C2_GeometryScaled ==
    /\ win.dimensions = ImVec2(QMul(win.designedWidth, win.scaleX),
                               QMul(win.designedHeight, win.scaleY))
    /\ win.position = ImVec2(QMul(win.designedPositionX, win.scaleX),
                             QMul(win.designedPositionY, win.scaleY))

\* the width changed on an earlier call and the height alone on the last one
C2_Witness ==
    /\ debug
    /\ pc = "draw"
    /\ "scaleY" \in assigned
    /\ "scaleX" \notin assigned
    /\ win.scaleX # F(1)
    /\ win.scaleY # F(1)
    /\ win.scaleX # win.scaleY
    /\ win.designedPositionX # F(0)

\* C3: in every reachable state scaleX = previousViewportWidth / 3840,
\* scaleY = previousViewportHeight / 2160 and scaleAvg = (scaleX + scaleY) / 2;
\* a Window designed (100, 100) that observed (1920, 1080) has scale (0.5, 0.5)
\* and instantaneous size (50, 50).
C3_ScaleConsistent ==
    /\ win.scaleX = QDiv(win.previousViewportWidth, F(3840))
    /\ win.scaleY = QDiv(win.previousViewportHeight, F(2160))
    /\ win.scaleAvg = QDiv(QAdd(win.scaleX, win.scaleY), F(2))
    /\ (/\ win.designedWidth = F(100)
        /\ win.designedHeight = F(100)
        /\ win.previousViewportWidth = F(1920)
        /\ win.previousViewportHeight = F(1080))
       => /\ win.scaleX = Q(1, 2)
          /\ win.scaleY = Q(1, 2)
          /\ win.dimensions = ImVec2(F(50), F(50))

\* the Window designed (100, 100) has observed (1920, 1080)
C3_Witness ==
    /\ win.designedWidth = F(100)
    /\ win.designedHeight = F(100)
    /\ win.previousViewportWidth = F(1920)
    /\ win.previousViewportHeight = F(1080)
    /\ "scaleX" \in assigned

\* C4: after any sequence of updateScale calls getWidth() is the current
\* width of the window on the viewport, designedWidth * getScaleX(), and
\* getHeight() is designedHeight * getScaleY().
C4_GettersReturnCurrentSize ==
    /\ getWidth(win) = QMul(win.designedWidth, getScaleX(win))
    /\ getHeight(win) = QMul(win.designedHeight, getScaleY(win))

\* the positions in log of the calls of fn
At(fn) == {i \in DOMAIN log : log[i].fn = fn}

\* C5: the steps of a render happen in strict order: the scale update (in a
\* DEBUG build) comes first, then the region is opened with the position and
\* dimensions that update produced, then draw() is invoked, then the region is
\* closed; draw() is never invoked before Begin or after End, the update never
\* follows Begin, and a render that draw() returns from has done every step once.
C5_RenderOrder ==
    /\ \A fn \in {"updateScale", "SetNextWindowPos", "SetNextWindowSize",
                  "Begin", "draw", "End"} : Cardinality(At(fn)) <= 1
    /\ \A u \in At("updateScale"), b \in At("Begin") : u < b
    /\ \A b \in At("Begin") :
          /\ \E p \in At("SetNextWindowPos") : p < b /\ log[p].arg = win.position
          /\ \E d \in At("SetNextWindowSize") : d < b /\ log[d].arg = win.dimensions
          /\ (debug /\ pc # "idle") =>
                /\ win.position =
                      ImVec2(QDiv(QMul(win.designedPositionX, viewport.x), F(3840)),
                             QDiv(QMul(win.designedPositionY, viewport.y), F(2160)))
                /\ win.dimensions =
                      ImVec2(QDiv(QMul(win.designedWidth, viewport.x), F(3840)),
                             QDiv(QMul(win.designedHeight, viewport.y), F(2160)))
    /\ \A d \in At("draw") :
          /\ \E b \in At("Begin") : b < d
          /\ \A e \in At("End") : d < e
    /\ (pc \in {"draw", "buildEnd"}) => At("draw") # {}
    /\ (debug /\ At("draw") # {}) => At("updateScale") # {}
    /\ (pc = "idle" /\ log # <<>> /\ log[Len(log)].fn # "throw")
       => (At("End") = {Len(log)} /\ At("draw") # {})

\* a render in a DEBUG build has run to its end at a viewport other than the
\* reference one
C5_Witness ==
    /\ debug
    /\ pc = "idle"
    /\ log # <<>>
    /\ log[Len(log)].fn = "End"
    /\ At("updateScale") = {1}
    /\ win.scaleX # F(1)

\* C6: the region bracket is released on every exit path of render: whenever
\* render has been left, every Begin it issued has been matched by one End,
\* also when draw() raised.
C6_RegionReleased ==
    (pc = "idle") => (Cardinality(At("Begin")) = Cardinality(At("End")))

\* C7: in a build without DEBUG no render and no viewport change alters the
\* scale or the geometry: scaleX = scaleY = scaleAvg = 1, dimensions is the
\* designed size and position the designed position, in every reachable state.
C7_PinnedWithoutDebug ==
    ~debug =>
        /\ win.scaleX = F(1)
        /\ win.scaleY = F(1)
        /\ win.scaleAvg = F(1)
        /\ win.dimensions = ImVec2(win.designedWidth, win.designedHeight)
        /\ win.position = ImVec2(win.designedPositionX, win.designedPositionY)

\* a build without DEBUG has rendered at a viewport other than the reference one
C7_Witness ==
    /\ ~debug
    /\ pc = "buildEnd"
    /\ At("Begin") # {}
    /\ viewport.x # DEFAULT_VIEWPORT_WIDTH
    /\ viewport.y # DEFAULT_VIEWPORT_HEIGHT

\* C8: the designed geometry is left unchanged by every operation.
C8_DesignedGeometryFixed ==
    [][/\ win'.designedWidth = win.designedWidth
       /\ win'.designedHeight = win.designedHeight
       /\ win'.designedPositionX = win.designedPositionX
       /\ win'.designedPositionY = win.designedPositionY]_vars

\* updateScale, render, setBackgroundColor and setBackgroundVisibility have
\* all acted on the Window
C8_Witness ==
    /\ pc = "idle"
    /\ At("End") # {}
    /\ win.scaleX # F(1)
    /\ win.scaleY # F(1)
    /\ win.backgroundColor # DEFAULT_BG
    /\ ~win.hasBackground

C10_GridMatchesPopulateGrid ==
    (/\ ret.fn = "GridTranslocatedOrigin"
     /\ args.cellNumber < args.columns * args.rows)
    => LET drawn == PopulateGrid(args.columns * args.rows, args.origin,
                                 args.columns, args.rows,
                                 args.cellWidth, args.cellHeight, args.gridlineWidth)
       IN /\ drawn[args.cellNumber + 1].index = args.cellNumber
          /\ drawn[args.cellNumber + 1].anchor = ret.value

\* two rectangles, each given by its upper-left corner and its size, share
\* interior points
Overlap(p1, s1, p2, s2) ==
    /\ QLess(p1.x, QAdd(p2.x, s2.x)) /\ QLess(p2.x, QAdd(p1.x, s1.x))
    /\ QLess(p1.y, QAdd(p2.y, s2.y)) /\ QLess(p2.y, QAdd(p1.y, s1.y))

\* C11: for every grid with columns >= 1, rows >= 1 and every cellNumber in
\* [0, columns * rows), the rectangle [anchor, anchor + (cellWidth, cellHeight)]
\* at the anchor GridTranslocatedOrigin returns lies inside the extent Draw::Grid
\* draws for the same grid and overlaps none of its gridlines.
C11_CellInsideGridlines ==
    (/\ ret.fn = "GridTranslocatedOrigin"
     /\ args.cellNumber < args.columns * args.rows)
    => LET gridlines == Grid(args.origin, args.columns, args.rows,
                             args.cellWidth, args.cellHeight, args.gridlineWidth)
           document == GridDocumentSize(args.columns, args.rows, args.cellWidth,
                                        args.cellHeight, args.gridlineWidth)
           cell == ImVec2(args.cellWidth, args.cellHeight)
       IN /\ QLeq(args.origin.x, ret.value.x)
          /\ QLeq(args.origin.y, ret.value.y)
          /\ QLeq(QAdd(ret.value.x, cell.x), QAdd(args.origin.x, document.x))
          /\ QLeq(QAdd(ret.value.y, cell.y), QAdd(args.origin.y, document.y))
          /\ \A i \in DOMAIN gridlines :
                ~Overlap(ret.value, cell, gridlines[i].position, gridlines[i].rectangleSize)

(***************************************************************************)
(* Properties of the alignment functions (checked under SpecPosition).     *)
(***************************************************************************)
\* half of a float
Half(a) == QDiv(a, F(2))

\* C12: Center2D places the center of the centered object exactly at the
\* center of the target, for all origins and sizes:
\* Center2D(O, T, S) + S / 2 = O + T / 2 on both axes.
C12_Center2DCenters ==
    (ret.fn = "Center2D") =>
        /\ QAdd(ret.value.x, Half(args.objectDimensions.x))
              = QAdd(args.origin.x, Half(args.targetObjectDimensions.x))
        /\ QAdd(ret.value.y, Half(args.objectDimensions.y))
              = QAdd(args.origin.y, Half(args.targetObjectDimensions.y))

\* Center2D has centered an object that is taller than its target
C12_Witness ==
    /\ ret.fn = "Center2D"
    /\ QLess(args.targetObjectDimensions.y, args.objectDimensions.y)
    /\ QLess(ret.value.y, args.origin.y)

\* C13: CenterAbove places the centered object above the target, centered
\* horizontally on it, its bottom edge distanceApart above the top edge of the
\* target: anchor.y + S.y = O.y - distanceApart and
\* anchor.x + S.x / 2 = O.x + T.x / 2.
C13_CenterAboveDistance ==
    (ret.fn = "CenterAbove") =>
        /\ QAdd(ret.value.y, args.objectDimensions.y)
              = QSub(args.origin.y, args.distanceApart)
        /\ QAdd(ret.value.x, Half(args.objectDimensions.x))
              = QAdd(args.origin.x, Half(args.targetObjectDimensions.x))

\* C14: the side alignments put the object exactly distanceApart from the
\* facing edge of the target: the three right-side functions return
\* x = O.x + T.x + g with equal top edges (TopAlign), equal bottom edges
\* (BottomAlign) or equal vertical centers (Center); CenterOnLeftSide returns
\* x + S.x = O.x - g with equal vertical centers.
C14_SideAlignment ==
    /\ (ret.fn \in {"TopAlignOnRightSide", "BottomAlignOnRightSide", "CenterOnRightSide"})
       => ret.value.x = QAdd(QAdd(args.origin.x, args.targetObjectDimensions.x),
                             args.distanceApart)
    /\ (ret.fn = "TopAlignOnRightSide") => ret.value.y = args.origin.y
    /\ (ret.fn = "BottomAlignOnRightSide")
       => QAdd(ret.value.y, args.objectDimensions.y)
             = QAdd(args.origin.y, args.targetObjectDimensions.y)
    /\ (ret.fn \in {"CenterOnRightSide", "CenterOnLeftSide"})
       => QAdd(ret.value.y, Half(args.objectDimensions.y))
             = QAdd(args.origin.y, Half(args.targetObjectDimensions.y))
    /\ (ret.fn = "CenterOnLeftSide")
       => QAdd(ret.value.x, args.objectDimensions.x)
             = QSub(args.origin.x, args.distanceApart)

\* an object has been centered on the left side, a positive distance apart
C14_Witness ==
    /\ ret.fn = "CenterOnLeftSide"
    /\ args.distanceApart = F(5)
    /\ args.origin = ImVec2(F(5), F(7))
    /\ args.objectDimensions = ImVec2(F(20), F(10))
    /\ ret.value.x = F(-20)

\* the margins an object at anchor leaves inside its target
LeftMargin(anchor) == QSub(anchor.x, args.origin.x)
TopMargin(anchor) == QSub(anchor.y, args.origin.y)
RightMargin(anchor) == QSub(QAdd(args.origin.x, args.targetObjectDimensions.x), QAdd(anchor.x, args.objectDimensions.x))
BottomMargin(anchor) == QSub(QAdd(args.origin.y, args.targetObjectDimensions.y), QAdd(anchor.y, args.objectDimensions.y))

\* C15: the inner corner and edge alignments keep the object exactly gap
\* inside the nearest edges of the target: TopLeft has left and top margins
\* gap, BottomLeft left and bottom, BottomRight right and bottom (origin (0,0),
\* target (100,50), object (20,10), gap 5 gives (75,35)), BottomCenter has
\* bottom margin gap and equal horizontal centers.
C15_InnerAlignment ==
    /\ (ret.fn = "InnerAlignTopLeft")
       => (LeftMargin(ret.value) = args.gap /\ TopMargin(ret.value) = args.gap)
    /\ (ret.fn = "InnerAlignBottomLeft")
       => (LeftMargin(ret.value) = args.gap /\ BottomMargin(ret.value) = args.gap)
    /\ (ret.fn = "InnerAlignBottomRight")
       => /\ RightMargin(ret.value) = args.gap
          /\ BottomMargin(ret.value) = args.gap
          /\ (/\ args.origin = ImVec2(F(0), F(0))
              /\ args.targetObjectDimensions = ImVec2(F(100), F(50))
              /\ args.objectDimensions = ImVec2(F(20), F(10))
              /\ args.gap = F(5))
             => ret.value = ImVec2(F(75), F(35))
    /\ (ret.fn = "InnerAlignBottomCenter")
       => /\ BottomMargin(ret.value) = args.gap
          /\ QAdd(ret.value.x, Half(args.objectDimensions.x))
                = QAdd(args.origin.x, Half(args.targetObjectDimensions.x))

\* the InnerAlignBottomRight call of the example
C15_Witness ==
    /\ ret.fn = "InnerAlignBottomRight"
    /\ args.origin = ImVec2(F(0), F(0))
    /\ args.targetObjectDimensions = ImVec2(F(100), F(50))
    /\ args.objectDimensions = ImVec2(F(20), F(10))
    /\ args.gap = F(5)
    /\ ret.value = ImVec2(F(75), F(35))

\* C16: InnerAlignCenterLeft and InnerAlignCenterRight center the object
\* vertically in the target, equidistant from the three nearest edges: with
\* d = (T.y - S.y) / 2 the top, bottom and near-side margins are all d, and
\* the two results mirror each other about the vertical center line of the
\* target.
C16_InnerAlignCenterSides ==
    (ret.fn \in {"InnerAlignCenterLeft", "InnerAlignCenterRight"}) =>
        LET d == Half(QSub(args.targetObjectDimensions.y, args.objectDimensions.y))
            left == InnerAlignCenterLeft(args.origin, args.targetObjectDimensions,
                                         args.objectDimensions)
            right == InnerAlignCenterRight(args.origin, args.targetObjectDimensions,
                                           args.objectDimensions)
        IN /\ TopMargin(ret.value) = d
           /\ BottomMargin(ret.value) = d
           /\ (ret.fn = "InnerAlignCenterLeft") => LeftMargin(ret.value) = d
           /\ (ret.fn = "InnerAlignCenterRight") => RightMargin(ret.value) = d
           /\ left.y = right.y
           /\ LeftMargin(left) = RightMargin(right)

\* an object has been aligned to the inner right with a positive displacement
C16_Witness ==
    /\ ret.fn = "InnerAlignCenterRight"
    /\ args.targetObjectDimensions = ImVec2(F(100), F(50))
    /\ args.objectDimensions = ImVec2(F(20), F(10))
    /\ RightMargin(ret.value) = F(20)

DocumentAlignments(next) ==
    LET documentWidth == IF ret.fn = "LeftAlign" THEN F(200) ELSE args.documentWidth
    IN [ LeftAlign |-> LeftAlign(args.origin, args.lineHeight, args.line + next,
                                 args.objectDimensions),
         CenterAlign |-> CenterAlign(args.origin, documentWidth, args.lineHeight,
                                     args.line + next, args.objectDimensions),
         RightAlign |-> RightAlign(args.origin, documentWidth, args.lineHeight,
                                   args.line + next, args.objectDimensions) ]

\* C18: for LeftAlign, CenterAlign and RightAlign, lineHeight is the distance
\* between the starts of consecutive lines measured downward: moving the same
\* object from line n to line n + 1 leaves x unchanged and moves the returned
\* corner down by exactly lineHeight, and for the same origin, lineHeight, line
\* and object the three functions return the same y.
C18_DocumentLinesStepDown ==
    (ret.fn \in {"LeftAlign", "CenterAlign", "RightAlign"}) =>
        /\ DocumentAlignments(0)[ret.fn] = ret.value
        /\ DocumentAlignments(1)[ret.fn].x = ret.value.x
        /\ DocumentAlignments(1)[ret.fn].y = QAdd(ret.value.y, args.lineHeight)
        /\ DocumentAlignments(0).LeftAlign.y = DocumentAlignments(0).CenterAlign.y
        /\ DocumentAlignments(0).CenterAlign.y = DocumentAlignments(0).RightAlign.y

(***************************************************************************)
(* Properties of FrameWithin (checked under SpecFrame).                    *)
(***************************************************************************)
\* the frame left inside outerFrame by the padding on every side
PaddedFrame == ImVec2(QSub(args.outerFrame.x, QMul(F(2), args.padding)), QSub(args.outerFrame.y, QMul(F(2), args.padding)))

\* C19: FrameWithin is a letterbox fit with padding: when padding >= 0 and the
\* outer frame exceeds twice the padding on both axes, the returned size keeps
\* the inner aspect ratio, fits in the padded frame on both axes and touches
\* it on at least one.
C19_FrameWithinFits ==
    (/\ ret.fn = "FrameWithin"
     /\ QLeq(F(0), args.padding)
     /\ QLess(F(0), PaddedFrame.x)
     /\ QLess(F(0), PaddedFrame.y))
    => /\ QMul(ret.value.x, args.innerFrame.y) = QMul(ret.value.y, args.innerFrame.x)
       /\ QLeq(ret.value.x, PaddedFrame.x)
       /\ QLeq(ret.value.y, PaddedFrame.y)
       /\ (ret.value.x = PaddedFrame.x \/ ret.value.y = PaddedFrame.y)

\* C20: when the padding does not fit (F.x <= 2p or F.y <= 2p) the returned
\* size has a zero or negative component.
C20_FrameWithinDegenerate ==
    (/\ ret.fn = "FrameWithin"
     /\ (QLeq(PaddedFrame.x, F(0)) \/ QLeq(PaddedFrame.y, F(0))))
    => (QLeq(ret.value.x, F(0)) \/ QLeq(ret.value.y, F(0)))

(***************************************************************************)
(* Degenerate geometry (checked under SpecDegenerate).                     *)
(***************************************************************************)
\* C21: degenerate geometry never raises: a call of FrameWithin with a zero or
\* negative frame dimension, or of GridTranslocatedOrigin with rows = 0 or
\* columns = 0 or zero / negative cell sizes, completes normally and returns
\* a vector; no call ends in a division fault.
C21_DegenerateNeverFaults ==
    ret.fn \in {"GridTranslocatedOrigin", "FrameWithin"}
    => /\ "fault" \notin DOMAIN ret
       /\ "value" \in DOMAIN ret

(***************************************************************************)
(* Properties of the ImVec2 operators (checked under SpecVector).          *)
(***************************************************************************)
\* float operator==: -0 equals +0, NaN equals nothing
FloatEq(a, b) == ~IsNaN(a) /\ ~IsNaN(b) /\ (a = b \/ (IsZero(a) /\ IsZero(b)))

\* two vectors equal on both axes
VecEq(a, b) == FloatEq(a.x, b.x) /\ FloatEq(a.y, b.y)

\* C22: the vector operators form inverse pairs: in exact arithmetic
\* (a + b) - b = a and (a - b) + b = a for all vectors a, b, and
\* (a * k) / k = a and (a / k) * k = a for every scalar k # 0; each operator
\* acts on the two components separately, with the same scalar on both axes.
C22_OperatorsInverse ==
    /\ ret.fn = "operator+"
       => /\ VecEq(VecSub(ret.value, args.rhs), args.lhs)
          /\ VecEq(ret.value, ImVec2(QAdd(args.lhs.x, args.rhs.x), QAdd(args.lhs.y, args.rhs.y)))
    /\ ret.fn = "operator-"
       => /\ VecEq(VecAdd(ret.value, args.rhs), args.lhs)
          /\ VecEq(ret.value, ImVec2(QSub(args.lhs.x, args.rhs.x), QSub(args.lhs.y, args.rhs.y)))
    /\ (ret.fn = "operator*" /\ args.rhs # F(0))
       => /\ VecEq(VecDiv(ret.value, args.rhs), args.lhs)
          /\ VecEq(ret.value, ImVec2(QMul(args.lhs.x, args.rhs), QMul(args.lhs.y, args.rhs)))
    /\ (ret.fn = "operator/" /\ args.rhs # F(0))
       => /\ VecEq(VecMul(ret.value, args.rhs), args.lhs)
          /\ VecEq(ret.value, ImVec2(QDiv(args.lhs.x, args.rhs), QDiv(args.lhs.y, args.rhs)))

\* a vector with two different components was scaled by 5/7
C22_Witness ==
    /\ ret.fn = "operator*"
    /\ args.lhs = ImVec2(F(5), F(7))
    /\ args.rhs = Q(5, 7)
    /\ ret.value = ImVec2(Q(25, 7), F(5))

(***************************************************************************)
(* Properties of the population routines (checked under SpecGrid).         *)
(***************************************************************************)
Min(a, b) == IF a < b THEN a ELSE b

\* C23: PopulateGrid and PopulateSparseRoundedGrid, given n images and any
\* columns >= 0 and rows >= 0, draw exactly min(n, columns * rows) images; the
\* i-th image drawn (from 0) is images[i], at row i / columns and column
\* i % columns; no index read from images reaches n.
C23_PopulateStopsAtImages ==
    ret.fn \in {"PopulateGrid", "PopulateSparseRoundedGrid"}
    => /\ Len(ret.value) = Min(args.imageCount, args.columns * args.rows)
       /\ \A k \in DOMAIN ret.value :
             LET i == k - 1
                 row == i \div args.columns
                 col == i % args.columns
                 gl == args.gridlineWidth
             IN /\ ret.value[k].index = i
                /\ ret.value[k].index < args.imageCount
                /\ ret.value[k].anchor =
                      ImVec2(QAdd(QAdd(args.origin.x, gl), QMul(F(col), QAdd(args.cellWidth, gl))),
                             QAdd(QAdd(args.origin.y, gl), QMul(F(row), QAdd(args.cellHeight, gl))))

\* two images in a grid of six cells: the last is drawn in row 0, column 1 and
\* four cells stay empty
C23_Witness ==
    /\ ret.fn = "PopulateGrid"
    /\ args.imageCount = 2 /\ args.columns = 3 /\ args.rows = 2
    /\ args.origin = ImVec2(F(0), F(0))
    /\ args.cellWidth = F(10) /\ args.gridlineWidth = F(2)
    /\ Len(ret.value) = 2
    /\ ret.value[2] = [index |-> 1, anchor |-> ImVec2(F(14), F(2))]

(***************************************************************************)
(* Properties of Texture::Load (checked under SpecTexture).                *)
(***************************************************************************)
\* C24: a call of Texture::Load ends either by returning a TextureData that
\* carries the non-zero id, the width and the height written by a successful
\* LoadTextureFromMemory, or by throwing; and when Load is not running every
\* file LoadTextureFromFile opened has been closed, whichever path it
\* returned by.
C24_LoadReturnsOrThrows ==
    /\ (loader.pc = "idle" /\ loader.loads > 0)
       => \/ /\ loader.outcome.kind = "returned"
             /\ loader.ret
             /\ loader.outcome.value.id # 0
             /\ loader.outcome.value.id = loader.textures
             /\ <<loader.outcome.value.width, loader.outcome.value.height>> \in ImageSizes
          \/ /\ loader.outcome.kind = "threw"
             /\ ~loader.ret
    /\ loader.pc = "idle" => loader.openFiles = 0

(***************************************************************************)
(* The two scale states of the Window (checked under Spec).                *)
(***************************************************************************)
\* the Unscaled state: scale 1 on both axes
Unscaled(w) == w.scaleX = F(1) /\ w.scaleY = F(1)

\* C25: a freshly constructed Window is Unscaled; in every reachable state
\* the Window is Unscaled exactly when the viewport size it last observed is
\* 3840 x 2160, and then its dimensions and position are the designed ones;
\* a call of updateScale observing any other size leaves it Scaled and one
\* observing 3840 x 2160 leaves it Unscaled.
C25_UnscaledAtReference ==
    /\ Unscaled(win)
    /\ [](/\ Unscaled(win) <=> (/\ win.previousViewportWidth = F(3840)
                                 /\ win.previousViewportHeight = F(2160))
          /\ Unscaled(win)
             => /\ win.dimensions = ImVec2(win.designedWidth, win.designedHeight)
                /\ win.position = ImVec2(win.designedPositionX, win.designedPositionY))
    /\ [][UpdateScaleStep =>
            /\ win'.previousViewportWidth = viewport.x
            /\ win'.previousViewportHeight = viewport.y
            /\ Unscaled(win') <=> (viewport = ImVec2(F(3840), F(2160)))]_vars

\* a Scaled Window has just observed the reference size again, on both axes
C25_Witness ==
    /\ debug
    /\ pc = "draw"
    /\ {"scaleX", "scaleY"} \subseteq assigned
    /\ viewport = ImVec2(F(3840), F(2160))
    /\ Unscaled(win)
    /\ win.dimensions = ImVec2(win.designedWidth, win.designedHeight)

\* C26: the two axes of the scale update are independent.  A call of
\* updateScale observing a size that differs from the cached one in width only
\* assigns scaleX, previousViewportWidth, scaleAvg, dimensions and position
\* and leaves scaleY and previousViewportHeight alone; a height-only change is
\* symmetric.  Updating one axis on one call and the other on the next reaches
\* the state reached by one call observing both changes.
C26_AxesIndependent ==
    [][UpdateScaleStep =>
        /\ (/\ viewport.x # win.previousViewportWidth
            /\ viewport.y = win.previousViewportHeight)
           => /\ assigned' = {"scaleX", "previousViewportWidth",
                              "scaleAvg", "dimensions", "position"}
              /\ win'.scaleX = QDiv(viewport.x, F(3840))
              /\ win'.previousViewportWidth = viewport.x
              /\ win'.scaleY = win.scaleY
              /\ win'.previousViewportHeight = win.previousViewportHeight
        /\ (/\ viewport.x = win.previousViewportWidth
            /\ viewport.y # win.previousViewportHeight)
           => /\ assigned' = {"scaleY", "previousViewportHeight",
                              "scaleAvg", "dimensions", "position"}
              /\ win'.scaleY = QDiv(viewport.y, F(2160))
              /\ win'.previousViewportHeight = viewport.y
              /\ win'.scaleX = win.scaleX
              /\ win'.previousViewportWidth = win.previousViewportWidth
        /\ LET widthFirst == updateScale(win, ImVec2(viewport.x, win.previousViewportHeight))
               heightFirst == updateScale(win, ImVec2(win.previousViewportWidth, viewport.y))
           IN /\ updateScale(widthFirst, viewport) = win'
              /\ updateScale(heightFirst, viewport) = win']_vars

\* the height changed on an earlier call and the width alone on the last one
C26_Witness ==
    /\ debug
    /\ pc = "draw"
    /\ assigned = {"scaleX", "previousViewportWidth", "scaleAvg", "dimensions", "position"}
    /\ win.scaleY = Q(2, 3)
    /\ win.scaleX = Q(1, 2)
    /\ win.position = ImVec2(F(20), F(20))

(***************************************************************************)
(* The background colour of a render (checked under Spec).                 *)
(***************************************************************************)
\* C27: the background push and its pop are paired in every render: at every
\* point of a render, also after draw() changed the visibility or raised, the
\* render has issued as many PopStyleColor as PushStyleColor calls and the
\* style-colour stack is as deep as before the render.  buildStart issues one
\* push before Begin and one pop after it when hasBackground is true; when it
\* is false it issues neither and passes ImGuiWindowFlags_NoBackground to Begin.
C27_BackgroundPushPopPaired ==
    /\ [](/\ Cardinality(At("PushStyleColor")) = Cardinality(At("PopStyleColor"))
          /\ imgui.styleColors = 0)
    /\ [][(pc = "buildStart" /\ pc' = "draw") =>
            LET pushes == {i \in DOMAIN log' : log'[i].fn = "PushStyleColor"}
                pops == {i \in DOMAIN log' : log'[i].fn = "PopStyleColor"}
                begins == {i \in DOMAIN log' : log'[i].fn = "Begin"}
            IN /\ Cardinality(begins) = 1
               /\ win.hasBackground
                  => /\ Cardinality(pushes) = 1
                     /\ Cardinality(pops) = 1
                     /\ \A u \in pushes, b \in begins, o \in pops :
                           /\ u < b /\ b < o
                           /\ log'[u].arg = win.backgroundColor
                           /\ "ImGuiWindowFlags_NoBackground" \notin log'[b].arg
               /\ ~win.hasBackground
                  => /\ pushes = {}
                     /\ pops = {}
                     /\ \A b \in begins :
                           "ImGuiWindowFlags_NoBackground" \in log'[b].arg]_vars

\* a render pushed the background colour; draw() then hid the background and
\* raised an error
C27_Witness ==
    /\ pc = "idle"
    /\ log # <<>>
    /\ log[Len(log)].fn = "throw"
    /\ At("PushStyleColor") # {}
    /\ At("PopStyleColor") # {}
    /\ ~win.hasBackground

(***************************************************************************)
(* The dated grid (checked under SpecDates).                               *)
(***************************************************************************)
\* C28: PopulateSparseRoundedGridWithDates never reads outside its
\* collections: for any numbers of images and dates and any columns and rows,
\* every index it uses on images is below images.size(), every index it uses
\* on dates is below dates.size(), and the call does not fault.
C28_DatesReadInRange ==
    ret.fn = "PopulateSparseRoundedGridWithDates"
    => /\ ret.value.fault = "none"
       /\ \A k \in DOMAIN ret.value.cells :
             /\ ret.value.cells[k].imagesIndex < args.imageCount
             /\ ret.value.cells[k].datesIndex < Len(args.dates)

(***************************************************************************)
(* The colour conversions (checked under SpecColor).                       *)
(***************************************************************************)
\* C29: RGBtoImU32 takes its alpha on the 0..1 scale of RGBtoImVec4: for
\* r, g, b in 0..255 and a in [0, 1], RGBtoImU32(r, g, b, a) is the 32-bit
\* conversion of RGBtoImVec4(r, g, b, a), and a = 1 gives the alpha byte 255.
C29_AlphaScale ==
    ret.fn = "RGBtoImU32"
    => /\ ret.value = ColorConvertFloat4ToU32(RGBtoImVec4(args.r, args.g, args.b, args.a))
       /\ args.a = F(1) => AlphaByte(ret.value) = 255

(***************************************************************************)
(* The order of the draw list (checked under SpecDraw).                    *)
(***************************************************************************)
\* the commands i..j of the draw list are the 32 stroke copies made with fn,
\* in the stroke colour, each displaced by strokeWidth at its own angle
StrokeCopies(list, i, fn, color, strokeWidth) ==
    \A k \in 0..31 :
       /\ list[i + k].fn = fn
       /\ list[i + k].col = color
       /\ (IF fn = "AddText" THEN list[i + k].pos.shift ELSE list[i + k].p_min.shift)
             = Polar(k, strokeWidth)

\* C30: every composite draw function appends its background element to the
\* draw list before its foreground element.  TextWithStroke appends the 32
\* stroke copies, then the text; TextWithHighlight, TextWithRoundedHighlight
\* and StrokedTextWithHighlight append the highlight rectangle before any
\* text (and the latter the 32 stroke copies before the text);
\* FilledRectangleWithStroke appends the rectangle enlarged by the stroke
\* width on every side, then the fill; BoxAroundWithStroke appends the 32
\* stroke boxes, then the central box.
C30_BackgroundFirst ==
    LET list == ret.value
        last == list[Len(list)]
        undisplaced == Place(args.position)
    IN /\ ret.fn = "TextWithStroke"
          => /\ Len(list) = 33
             /\ StrokeCopies(list, 1, "AddText",
                             WithAlpha(args.strokeColor, args.transparency), args.strokeWidth)
             /\ last.fn = "AddText"
             /\ last.pos = undisplaced
             /\ last.col = WithAlpha(args.textColor, args.transparency)
       /\ ret.fn \in {"TextWithHighlight", "TextWithRoundedHighlight"}
          => /\ Len(list) = 2
             /\ list[1].fn = "AddRectFilled"
             /\ list[1].col = WithAlpha(args.highlightColor, args.highlightTransparency)
             /\ list[1].p_min.base = VecSub(args.position,
                                           ImVec2(args.highlightWidth, args.highlightWidth))
             /\ list[1].rounding = (IF ret.fn = "TextWithHighlight" THEN F(0) ELSE F(4))
             /\ last.fn = "AddText"
             /\ last.pos = undisplaced
             /\ last.col = WithAlpha(args.textColor, args.textTransparency)
       /\ ret.fn = "StrokedTextWithHighlight"
          => /\ Len(list) = 34
             /\ list[1].fn = "AddRectFilled"
             /\ list[1].col = WithAlpha(args.highlightColor, args.highlightTransparency)
             /\ StrokeCopies(list, 2, "AddText",
                             WithAlpha(args.strokeColor, args.textTransparency), args.strokeWidth)
             /\ last.fn = "AddText"
             /\ last.pos = undisplaced
             /\ last.col = WithAlpha(args.textColor, args.textTransparency)
       /\ ret.fn = "FilledRectangleWithStroke"
          => /\ Len(list) = 2
             /\ list[1].fn = "AddRectFilled"
             /\ list[1].col = WithAlpha(args.strokeColor, args.transparency)
             /\ list[1].p_min.base = VecSub(args.position,
                                           ImVec2(args.strokeWidth, args.strokeWidth))
             /\ list[1].p_max.base = VecAdd(VecAdd(args.position, args.rectangleSize),
                                           ImVec2(args.strokeWidth, args.strokeWidth))
             /\ last.fn = "AddRectFilled"
             /\ last.col = WithAlpha(args.color, args.transparency)
             /\ last.p_min = undisplaced
             /\ last.p_max.base = VecAdd(args.position, args.rectangleSize)
       /\ ret.fn = "BoxAroundWithStroke"
          => /\ Len(list) = 33
             /\ StrokeCopies(list, 1, "AddRect",
                             WithAlpha(args.strokeColor, args.transparency), args.strokeWidth)
             /\ last.fn = "AddRect"
             /\ last.col = WithAlpha(args.color, args.transparency)
             /\ last.p_min = Translate(Place(args.offset),
                                       ImVec2(QSub(F(0), args.width), QSub(F(0), args.width)))

\* white text with a black stroke, half transparent, has been drawn
C30_Witness ==
    /\ ret.fn = "TextWithStroke"
    /\ args.strokeColor = IM_COL32_BLACK
    /\ args.textColor = IM_COL32_WHITE
    /\ args.transparency = Q(1, 2)
    /\ Len(ret.value) = 33
    /\ ret.value[1].col = <<0, 0, 0, 127>>
    /\ ret.value[33].col = <<255, 255, 255, 127>>

====
